---- MODULE Spec2Model ----
(***************************************************************************)
(* Reminder lifecycle of the Mattermost/Supabase edge functions:           *)
(*   - slash-reminder-mentors (creation without mentions, stop command)    *)
(*   - slash-reminder         (creation with mentions)                     *)
(*   - reminder-cron          (evaluation run)                             *)
(* over the `reminders` table and the chat platform, and the channel       *)
(* summary of today-channels-summary.                                      *)
(*                                                                         *)
(* Strings are modelled structurally: a user name is a TLA+ string, a      *)
(* mention token is a sequence of atoms whose leading "@" atoms are the    *)
(* "@" characters, a date field is a record of its numeric parts.  Time is *)
(* counted in hours since 2024-01-01T00:00Z.                               *)
(***************************************************************************)
EXTENDS Integers, Sequences, FiniteSets, TLC

VARIABLES
    tz,             \* the server's time zone offset in hours (local = UTC + tz)
    clock,          \* the current time, in hours
    schemaDefault,  \* what the table gives `completed` on insert: "null" or "false"
    reminders,      \* the reminders table: post_id -> row
    posts,          \* the chat platform's posts; a post's id is its index
    reactions,      \* the reactions: [post, user, emoji]
    scenario,       \* what the users do: the command texts they send and how much
    create,         \* the creation handler (one request at a time)
    stop,           \* the stop handler (one request at a time)
    cron,           \* the evaluation handler (one run at a time)
    summary,        \* the today-channels-summary handler (one request at a time)
    logger,         \* utils/logger.ts and the summary requests that log
    synth,          \* synthesizeWithVoiceVox: the chunk requests and the merge
    range,          \* the summary's time range and what it selects of a channel
    stream          \* waitForAudioCompletion and the event stream it reads

vars == <<tz, clock, schemaDefault, reminders, posts, reactions, scenario,
          create, stop, cron, summary, logger, synth, range, stream>>

\* the reminder functions' state, and the state of the summary's services
reminderVars == <<tz, clock, schemaDefault, reminders, posts, reactions, scenario,
                  create, stop, cron>>
services == <<logger, synth, range, stream>>

(***************************************************************************)
(* Calendar arithmetic (what the JavaScript Date object computes).         *)
(***************************************************************************)
HoursPerDay == 24

IsLeap(y) == (y % 4 = 0 /\ y % 100 # 0) \/ y % 400 = 0

DaysInMonth(y, m) ==
    IF m = 2 THEN (IF IsLeap(y) THEN 29 ELSE 28)
    ELSE IF m \in {4, 6, 9, 11} THEN 30 ELSE 31

DaysInYear(y) == IF IsLeap(y) THEN 366 ELSE 365

RECURSIVE DaysBeforeYear(_)
\* days from 2024-01-01 to y-01-01 (negative before 2024)
DaysBeforeYear(y) ==
    IF y = 2024 THEN 0
    ELSE IF y > 2024 THEN DaysBeforeYear(y - 1) + DaysInYear(y - 1)
    ELSE DaysBeforeYear(y + 1) - DaysInYear(y)

RECURSIVE DaysBeforeMonth(_, _)
DaysBeforeMonth(y, m) ==
    IF m = 1 THEN 0 ELSE DaysBeforeMonth(y, m - 1) + DaysInMonth(y, m - 1)

\* MakeDay: the day number of y-m-d; a day past the end of the month rolls
\* over into the next month, as MakeDay does.
DayNumber(y, m, d) == DaysBeforeYear(y) + DaysBeforeMonth(y, m) + (d - 1)

FloorDiv(a, b) == IF a >= 0 THEN a \div b ELSE -((-a + b - 1) \div b)

CeilDiv(a, b) == -FloorDiv(-a, b)

\* the calendar date of day number n
CivilFromDays(n) ==
    LET y == CHOOSE yy \in 2022..2027 :
                 DaysBeforeYear(yy) <= n /\ n < DaysBeforeYear(yy) + DaysInYear(yy)
        m == CHOOSE mm \in 1..12 :
                 /\ DaysBeforeYear(y) + DaysBeforeMonth(y, mm) <= n
                 /\ n < DaysBeforeYear(y) + DaysBeforeMonth(y, mm) + DaysInMonth(y, mm)
    IN  [y |-> y, m |-> m, d |-> n - DaysBeforeYear(y) - DaysBeforeMonth(y, m) + 1]

(***************************************************************************)
(* Date fields.  kind "ymd" is a zero-padded YYYY/MM/DD, kind "ym" a       *)
(* YYYY/MM, kind "word" any text that is no date.                          *)
(***************************************************************************)
YmdField(y, m, d) == [kind |-> "ymd", y |-> y, m |-> m, d |-> d]
YmField(y, m)     == [kind |-> "ym",  y |-> y, m |-> m, d |-> 0]
WordField         == [kind |-> "word", y |-> 0, m |-> 0, d |-> 0]

\* a first field that is a date of the calendar written YYYY/MM/DD
IsValidYmd(f) ==
    /\ f.kind = "ymd"
    /\ f.m \in 1..12
    /\ f.d \in 1..DaysInMonth(f.y, f.m)

\* new Date(isoLike) with isoLike = dateStr.replace(/\//g, '-'):
\* the date-only ISO forms are read as UTC midnight; the month must be 1..12
\* and the day 1..31; anything else is an Invalid Date.  Result in hours.
JsDateParse(f) ==
    IF f.kind = "ymd" /\ f.m \in 1..12 /\ f.d \in 1..31
        THEN [nan |-> FALSE, time |-> HoursPerDay * DayNumber(f.y, f.m, f.d)]
    ELSE IF f.kind = "ym" /\ f.m \in 1..12
        THEN [nan |-> FALSE, time |-> HoursPerDay * DayNumber(f.y, f.m, 1)]
    ELSE [nan |-> TRUE, time |-> 0]

\* getFullYear / getMonth()+1 / getDate: the calendar date of the instant
\* in the server's local time
LocalDate(ts, zone) == CivilFromDays(FloorDiv(ts + zone, HoursPerDay))

NoDate == [y |-> 0, m |-> 0, d |-> 0]

\* the handlers' date step: NaN -> usage answer, else finalDueStr
ParseDueDate(f, zone) ==
    LET dueDate == JsDateParse(f)
    IN  IF dueDate.nan
            THEN [ok |-> FALSE, due |-> NoDate]
            ELSE [ok |-> TRUE, due |-> LocalDate(dueDate.time, zone)]

(***************************************************************************)
(* The chat platform's directory.  A name is a sequence of atoms; the atom *)
(* "@" is the character '@', every other atom a run of name characters.    *)
(***************************************************************************)
Alice == [id |-> "ua", username |-> <<"alice">>]
Bob   == [id |-> "ub", username |-> <<"bob">>]
Carol == [id |-> "uc", username |-> <<"carol">>]

AllUsers == {Alice, Bob, Carol}

UserIds == {u.id : u \in AllUsers}

\* the user groups: name, id and member ids, in the order the API lists them
MentorGroup == [id |-> "gm", name |-> <<"mentors">>, members |-> <<"ub", "uc">>]
DevGroup    == [id |-> "gd", name |-> <<"devs">>,    members |-> <<"ua", "ub">>]
\* a group that carries the name of a user
BobGroup    == [id |-> "gb", name |-> <<"bob">>,     members |-> <<"uc">>]

AllGroups == {MentorGroup, DevGroup, BobGroup}

MENTOR_GROUP_ID == MentorGroup.id

NoUser == [id |-> "", username |-> <<>>]

NoGroup == [id |-> "", name |-> <<>>, members |-> <<>>]

UserOfId(uid) == CHOOSE u \in AllUsers : u.id = uid

RECURSIVE SeqFilter(_, _)
\* Array.prototype.filter, with the set of kept elements
SeqFilter(s, keep) ==
    IF s = <<>> THEN <<>>
    ELSE IF Head(s) \in keep THEN <<Head(s)>> \o SeqFilter(Tail(s), keep)
    ELSE SeqFilter(Tail(s), keep)

RECURSIVE SeqMapUser(_)
SeqMapUser(ids) ==
    IF ids = <<>> THEN <<>> ELSE <<UserOfId(Head(ids))>> \o SeqMapUser(Tail(ids))

Range(s) == {s[i] : i \in DOMAIN s}

\* username.replace(/^@/, "").trim() on a text without white space
StripAt(s) == IF s # <<>> /\ Head(s) = "@" THEN Tail(s) ELSE s

\* getUserByUsername: o is the outcome of the HTTP call
getUserByUsername(username, o) ==
    LET normalized == StripAt(username)
    IN  IF normalized = <<>> THEN NoUser
        ELSE IF o = "ok" /\ \E u \in AllUsers : u.username = normalized
            THEN CHOOSE u \in AllUsers : u.username = normalized
        ELSE NoUser

\* getUserGroupByName
getUserGroupByName(name, o) ==
    LET normalized == StripAt(name)
    IN  IF normalized = <<>> THEN NoGroup
        ELSE IF o = "ok" /\ \E g \in AllGroups : g.name = normalized
            THEN CHOOSE g \in AllGroups : g.name = normalized
        ELSE NoGroup

\* getUserGroupMemberIds
getUserGroupMemberIds(groupId, o) ==
    IF o = "ok" THEN (CHOOSE g \in AllGroups : g.id = groupId).members ELSE <<>>

\* getUsersByIds
getUsersByIds(userIds, o) ==
    IF userIds = <<>> \/ o # "ok" THEN <<>> ELSE SeqMapUser(userIds)

\* getMentors: the members of the mentor group, [] when the call fails
getMentors(o) ==
    IF o = "ok" THEN SeqMapUser((CHOOSE g \in AllGroups : g.id = MENTOR_GROUP_ID).members)
    ELSE <<>>

\* an addUsername that does not look at `seen`
addUsernameUnseen(acc, username) ==
    IF StripAt(username) = <<>> THEN acc ELSE Append(acc, StripAt(username))

\* addUsername of expandMentions: acc is the result so far (seen = its range)
addUsername(acc, username) ==
    LET normalized == StripAt(username)
    IN  IF normalized = <<>> \/ normalized \in Range(acc) THEN acc
        ELSE Append(acc, normalized)

RECURSIVE addUsernames(_, _)
addUsernames(acc, users) ==
    IF users = <<>> THEN acc
    ELSE addUsernames(addUsername(acc, Head(users).username), Tail(users))

\* one turn of the loop of expandMentions over `mention`; o gives the outcome
\* of each of the four lookups the turn may make
expandOne(acc, mention, o) ==
    LET normalized == StripAt(mention)
        user  == getUserByUsername(normalized, o.user)
        group == getUserGroupByName(normalized, o.group)
        memberIds == getUserGroupMemberIds(group.id, o.members)
        members == getUsersByIds(memberIds, o.ids)
    IN  IF normalized = <<>> THEN acc
        ELSE IF user # NoUser THEN addUsername(acc, user.username)
        ELSE IF group # NoGroup THEN addUsernames(acc, members)
        ELSE addUsername(acc, normalized)

(***************************************************************************)
(* Bounds of the model.                                                    *)
(***************************************************************************)
MaxPosts == 3        \* posts the chat platform holds (root posts and replies)
MaxReminders == 2    \* creation scenario that reach the chat platform
MaxReactions == 1    \* reactions users add
MaxDays == 1         \* days the clock advances
EvalPosts == 3       \* the same, where users react before the runs
EvalReminders == 2
EvalReactions == 2
OnePost == 1         \* posts, where single creation requests are studied
MaxMentions == 2     \* mention tokens of a command text
MaxInFlight == 1     \* scenario served at the same time
MaxDeleted == 1      \* posts users delete
MaxChannels == 2     \* channels the team's channel list holds
MaxRequests == 2     \* summary requests in the process at the same time
MaxLines == 2        \* lines a summary request logs
MaxChunks == 3       \* chunks the script of the audio summary is split into
WatchDays == 4       \* days the clock advances around a due date
MaxPagePosts == 2    \* posts of a channel's page
MaxEvents == 2       \* lines of an event stream
RaceInFlight == 2     \* a stop request served while an evaluation run is under way

\* an id that is the id of no post
GhostId == MaxPosts + 1

\* 2025-03-03T09:00Z
StartClock == HoursPerDay * DayNumber(2025, 3, 3) + 9

Outcomes == {"ok", "fail", "throw"}     \* of a fetch: 2xx, not ok, rejected
DbOutcomes == {"ok", "error"}           \* of a datastore call

Resp(status, kind) == [status |-> status, kind |-> kind]

NoResp == Resp(0, "none")

\* A handler that has just sent something (an HTTP answer, a threaded reply)
\* or has just dealt with one reminder is at "answered", "replied" or
\* "decided": what it did is readable in its record until its next step,
\* which is its own and touches nothing shared.
Wire == {"answered", "replied", "decided"}

Quiet == create.pc \notin Wire /\ stop.pc \notin Wire /\ cron.pc \notin Wire

\* the scenario being served
InFlight == {h \in {"create", "stop", "cron"} :
                \/ h = "create" /\ create.pc # "idle"
                \/ h = "stop" /\ stop.pc # "idle"
                \/ h = "cron" /\ cron.pc # "idle"}

\* a request can be taken up
CanServe == Quiet /\ Cardinality(InFlight) < scenario.inflight

(***************************************************************************)
(* The reminders table.                                                    *)
(***************************************************************************)
HasRow(rs, id) == id \in DOMAIN rs

\* a select that forgets the rows whose flag is null
IsOpenFalseOnly(row) == row.completed = "false"

\* select ... .or('completed.is.null,completed.eq.false')
IsOpen(row) == row.completed = "null" \/ row.completed = "false"

OpenIds(rs) == {id \in DOMAIN rs : IsOpen(rs[id])}

\* upsert({post_id, channel_id, due_date, content, updated_at}): the columns
\* given are written, `completed` keeps its value or gets the default
DbUpsert(rs, id, channel, due, content, now, dflt) ==
    [i \in DOMAIN rs \cup {id} |->
        IF i = id
            THEN [post_id |-> id, channel_id |-> channel, due_date |-> due,
                  content |-> content, updated_at |-> now,
                  completed |-> IF id \in DOMAIN rs THEN rs[id].completed ELSE dflt]
            ELSE rs[i]]

\* reminder-cron: update({ completed: true }).eq('post_id', postId)
DbComplete(rs, id) ==
    [i \in DOMAIN rs |-> IF i = id THEN [rs[i] EXCEPT !.completed = "true"] ELSE rs[i]]

\* an update that toggles the flag instead of setting it
DbStopToggle(rs, id, now) ==
    [i \in DOMAIN rs |->
        IF i = id
            THEN [rs[i] EXCEPT !.completed = IF rs[i].completed = "true" THEN "false"
                                             ELSE "true",
                               !.updated_at = now]
        ELSE rs[i]]

\* stopReminder: update({ completed: true, updated_at }).eq("post_id", rootId)
DbStop(rs, id, now) ==
    [i \in DOMAIN rs |->
        IF i = id THEN [rs[i] EXCEPT !.completed = "true", !.updated_at = now]
        ELSE rs[i]]

(***************************************************************************)
(* The chat platform.                                                      *)
(***************************************************************************)
PostExists(id) == id \in DOMAIN posts

\* GET /posts/{id} answers 404 for a post that is deleted or was never made
PostFound(id) == PostExists(id) /\ posts[id].delete_at = 0

RootPosts == {i \in DOMAIN posts : posts[i].root_id = 0}

\* the posts of the thread of root post `root`: the root and its replies
ThreadOf(root) == {root} \cup {i \in DOMAIN posts : posts[i].root_id = root}

\* the root of the thread post `id` is in ("" is modelled as 0)
RootOf(id) == IF posts[id].root_id # 0 THEN posts[id].root_id ELSE id

\* getReactions(postId): the reactions of that one post, [] when not ok
getReactions(postId, o) ==
    IF o = "ok" THEN {r \in reactions : r.post = postId} ELSE {}

\* the reactions users give: `done` by anyone, another emoji by a mentor
ReactionKinds ==
    {[user |-> u, emoji |-> "done"] : u \in UserIds} \cup {[user |-> "ub", emoji |-> "eyes"]}

\* a user adds a reaction to a post
React ==
    /\ Quiet
    /\ Cardinality(reactions) < scenario.reactions
    /\ \E p \in DOMAIN posts, k \in ReactionKinds :
          /\ [post |-> p, user |-> k.user, emoji |-> k.emoji] \notin reactions
          /\ reactions' = reactions \cup {[post |-> p, user |-> k.user, emoji |-> k.emoji]}
    /\ UNCHANGED <<services, summary, tz, clock, schemaDefault, reminders, posts, scenario,
                   create, stop, cron>>

\* a user replies in the thread of a root post
UserReply ==
    /\ Quiet
    /\ Len(posts) < scenario.posts
    /\ \E root \in RootPosts :
          posts' = Append(posts, [channel_id |-> posts[root].channel_id,
                                  root_id |-> root, delete_at |-> 0])
    /\ UNCHANGED <<services, summary, tz, clock, schemaDefault, reminders, reactions, scenario,
                   create, stop, cron>>

\* a user deletes a root post (the platform keeps it, marked deleted)
DeletePost ==
    /\ Quiet
    /\ Cardinality({i \in DOMAIN posts : posts[i].delete_at # 0}) < scenario.deleted
    /\ \E p \in RootPosts :
          /\ posts[p].delete_at = 0
          /\ posts' = [posts EXCEPT ![p].delete_at = clock]
    /\ UNCHANGED <<services, summary, tz, clock, schemaDefault, reminders, reactions, scenario,
                   create, stop, cron>>

\* a day passes
Tick ==
    /\ Quiet
    /\ clock < StartClock + HoursPerDay * scenario.days
    /\ clock' = clock + HoursPerDay
    /\ UNCHANGED <<services, summary, tz, schemaDefault, reminders, posts, reactions, scenario,
                   create, stop, cron>>

(***************************************************************************)
(* Command texts.  A text is its first white-space delimited field, the    *)
(* fields that follow it (each a sequence of atoms) and whether one white  *)
(* space character ends it; fields are separated by one white space.       *)
(***************************************************************************)
NoText == [first |-> WordField, words |-> <<>>, trail |-> FALSE, empty |-> TRUE]

Text(first, words, trail) ==
    [first |-> first, words |-> words, trail |-> trail, empty |-> FALSE]

\* a field that @\S+ matches
IsMention(w) == Len(w) >= 2 /\ Head(w) = "@"

RECURSIVE LeadingMentions(_)
LeadingMentions(ws) ==
    IF ws = <<>> \/ ~IsMention(Head(ws)) THEN 0 ELSE 1 + LeadingMentions(Tail(ws))

\* rest.match(/^((?:@\S+\s+)+)([\s\S]*)$/): how many fields group 1 takes.
\* Each repetition needs white space after the mention, so a mention that
\* ends the text is left to group 2.
MentionCount(t) ==
    LET k == LeadingMentions(t.words)
    IN  IF k = Len(t.words) /\ ~t.trail /\ k > 0 THEN k - 1 ELSE k

\* text.match(/^(\S+)\s+([\s\S]+)/) and text.match(/^(\S+)\s([\s\S]+)/):
\* a first field, white space and something after it
FirstMatched(t) == t.words # <<>>

(***************************************************************************)
(* The creation handlers: slash-reminder-mentors (variant "mentors") and   *)
(* slash-reminder (variant "reminder").                                    *)
(***************************************************************************)
IdleCreate ==
    [pc |-> "idle", variant |-> "none", tokenOk |-> FALSE, channel |-> "",
     text |-> NoText, dateStr |-> WordField, due |-> NoDate, contents |-> <<>>, rawAll |-> <<>>,
     raw |-> <<>>, targets |-> <<>>, lookupsOk |-> TRUE, postId |-> 0,
     made |-> 0, edited |-> FALSE, wrote |-> 0, resp |-> NoResp]

\* the handler answers
CreateAnswer(c, status, kind) ==
    [c EXCEPT !.pc = "answered", !.resp = Resp(status, kind)]

CanCreate ==
    /\ CanServe
    /\ create.pc = "idle"
    /\ Len(posts) < scenario.posts
    /\ Cardinality(RootPosts) < scenario.reminders

\* the date step of both handlers
DateStep(c) ==
    LET parsed == ParseDueDate(c.dateStr, tz)
    IN  IF ~parsed.ok THEN CreateAnswer(c, 200, "baddate")
        ELSE [c EXCEPT !.pc = "post", !.due = parsed.due]

\* slash-reminder-mentors, serve: token, text, format and date
CreateMentorsBegin ==
    /\ CanCreate
    /\ \E tokenOk \in BOOLEAN, channel \in {"c1", ""}, text \in scenario.texts \cup {NoText} :
          LET c == [IdleCreate EXCEPT !.variant = "mentors", !.tokenOk = tokenOk,
                                      !.channel = channel, !.text = text,
                                      !.dateStr = text.first]
          IN  create' =
                  IF ~tokenOk THEN CreateAnswer(c, 403, "forbidden")
                  ELSE IF text.empty \/ channel = "" THEN CreateAnswer(c, 400, "missing")
                  ELSE IF ~FirstMatched(text) THEN CreateAnswer(c, 200, "usage")
                  ELSE DateStep([c EXCEPT !.contents = text.words])
    /\ UNCHANGED <<services, summary, tz, clock, schemaDefault, reminders, posts, reactions,
                   scenario, stop, cron>>

\* slash-reminder, serve: token, text, format and the mention run
CreateReminderBegin ==
    /\ CanCreate
    /\ \E tokenOk \in BOOLEAN, channel \in {"c1", ""}, text \in scenario.texts \cup {NoText} :
          LET c == [IdleCreate EXCEPT !.variant = "reminder", !.tokenOk = tokenOk,
                                      !.channel = channel, !.text = text,
                                      !.dateStr = text.first]
              k == MentionCount(text)
          IN  create' =
                  IF ~tokenOk THEN CreateAnswer(c, 403, "forbidden")
                  ELSE IF text.empty \/ channel = "" THEN CreateAnswer(c, 400, "missing")
                  ELSE IF ~FirstMatched(text) THEN CreateAnswer(c, 200, "usage")
                  ELSE IF k = 0 THEN CreateAnswer(c, 200, "usage")
                  ELSE [c EXCEPT !.pc = "expand",
                                 !.rawAll = SubSeq(text.words, 1, k),
                                 !.raw = SubSeq(text.words, 1, k),
                                 !.contents = SubSeq(text.words, k + 1, Len(text.words))]
    /\ UNCHANGED <<services, summary, tz, clock, schemaDefault, reminders, posts, reactions,
                   scenario, stop, cron>>

LookupOutcomes == [user : {"ok", "fail"}, group : {"ok", "fail"},
                   members : {"ok", "fail"}, ids : {"ok", "fail"}]

\* whether every lookup a turn over `mention` makes succeeds
LookupsSucceed(mention, o) ==
    LET normalized == StripAt(mention)
        user  == getUserByUsername(normalized, "ok")
        group == getUserGroupByName(normalized, "ok")
    IN  \/ StripAt(normalized) = <<>>
        \/ /\ o.user = "ok"
           /\ \/ user # NoUser
              \/ /\ o.group = "ok"
                 /\ (group = NoGroup \/ (o.members = "ok" /\ o.ids = "ok"))

\* slash-reminder, after the mentions are expanded: targets, body and date
AfterExpand(c) ==
    IF c.targets = <<>> THEN CreateAnswer(c, 200, "usage")
    ELSE IF c.contents = <<>> THEN CreateAnswer(c, 200, "usage")
    ELSE DateStep(c)

\* expandMentions: one turn of its loop; a lookup that rejects ends the
\* request in the handler's catch
CreateExpand ==
    /\ Quiet
    /\ create.pc = "expand"
    /\ \/ \E o \in LookupOutcomes :
             LET c == [create EXCEPT
                          !.targets = expandOne(create.targets, Head(create.raw), o),
                          !.raw = Tail(create.raw),
                          !.lookupsOk = create.lookupsOk
                                           /\ LookupsSucceed(Head(create.raw), o)]
             IN  create' = IF c.raw = <<>> THEN AfterExpand(c) ELSE c
       \/ create' = CreateAnswer(create, 500, "thrown")
    /\ UNCHANGED <<services, summary, tz, clock, schemaDefault, reminders, posts, reactions,
                   scenario, stop, cron>>

\* a createPost whose result is not checked: the handler goes on without a post
CreatePostUnchecked ==
    /\ Quiet
    /\ create.pc = "post"
    /\ \E o \in Outcomes :
          IF o = "ok"
              THEN /\ posts' = Append(posts, [channel_id |-> create.channel,
                                              root_id |-> 0, delete_at |-> 0])
                   /\ create' = [create EXCEPT !.postId = Len(posts) + 1,
                                               !.made = create.made + 1,
                                               !.pc = IF create.variant = "mentors"
                                                          THEN "update" ELSE "upsert"]
              ELSE /\ posts' = posts
                   /\ create' = [create EXCEPT !.pc = IF create.variant = "mentors"
                                                          THEN "update" ELSE "upsert"]
    /\ UNCHANGED <<services, summary, tz, clock, schemaDefault, reminders, reactions, scenario,
                   stop, cron>>

\* createPost(channelId, postMessage)
CreatePost ==
    /\ Quiet
    /\ create.pc = "post"
    /\ \E o \in Outcomes :
          IF o = "ok"
              THEN /\ posts' = Append(posts, [channel_id |-> create.channel,
                                              root_id |-> 0, delete_at |-> 0])
                   /\ create' = [create EXCEPT
                                    !.postId = Len(posts) + 1,
                                    !.made = create.made + 1,
                                    !.pc = IF create.variant = "mentors"
                                               THEN "update" ELSE "upsert"]
              ELSE /\ posts' = posts
                   /\ create' = CreateAnswer(create, 500,
                                    IF o = "fail" THEN "postfail" ELSE "thrown")
    /\ UNCHANGED <<services, summary, tz, clock, schemaDefault, reminders, reactions, scenario,
                   stop, cron>>

\* slash-reminder-mentors: updatePost appends the stop line to the new post
CreateUpdatePost ==
    /\ Quiet
    /\ create.pc = "update"
    /\ \E o \in Outcomes :
          create' = IF o = "throw" THEN CreateAnswer(create, 500, "thrown")
                    ELSE [create EXCEPT !.pc = "upsert", !.edited = (o = "ok")]
    /\ UNCHANGED <<services, summary, tz, clock, schemaDefault, reminders, posts, reactions,
                   scenario, stop, cron>>

\* the content column: the body, or JSON.stringify({body, target_usernames})
ContentOf(c) ==
    IF c.variant = "mentors"
        THEN [json |-> FALSE, body |-> c.contents, target_usernames |-> <<>>]
        ELSE [json |-> TRUE, body |-> c.contents, target_usernames |-> c.targets]

\* the key the row is written under
UpsertKey(c) == c.postId

\* both handlers: upsert of the row, then the success answer
CreateUpsert ==
    /\ Quiet
    /\ create.pc = "upsert"
    /\ \E o \in DbOutcomes :
          IF o = "ok"
              THEN /\ reminders' = DbUpsert(reminders, UpsertKey(create), create.channel,
                                            create.due, ContentOf(create), clock,
                                            schemaDefault)
                   /\ create' = CreateAnswer([create EXCEPT !.wrote = create.wrote + 1],
                                             200, "success")
              ELSE /\ reminders' = reminders
                   /\ create' = CreateAnswer(create, 500, "upserterr")
    /\ UNCHANGED <<services, summary, tz, clock, schemaDefault, posts, reactions, scenario, stop, cron>>

\* the answer is delivered and the request ends
CreateReturn ==
    /\ create.pc = "answered"
    /\ create' = IdleCreate
    /\ UNCHANGED <<services, summary, tz, clock, schemaDefault, reminders, posts, reactions,
                   scenario, stop, cron>>

(***************************************************************************)
(* postReply: a threaded reply, as the handler sends it.                   *)
(***************************************************************************)
Message(kind, days, due, mentions) ==
    [kind |-> kind, days |-> days, due |-> due, mentions |-> mentions]

Reply(channel, root, msg, o) ==
    [channel_id |-> channel, root_id |-> root, message |-> msg, result |-> o]

NoReply == Reply("", 0, Message("none", 0, NoDate, <<>>), "ok")

(***************************************************************************)
(* The stop command of slash-reminder-mentors.                             *)
(***************************************************************************)
\* text is the stop text while serve holds it (stopReminder is handed the
\* id only); reads and tries count the selects and the updates of the table
IdleStop ==
    [pc |-> "idle", tokenOk |-> FALSE, text |-> <<>>, id |-> 0, channel |-> "",
     rootId |-> 0, replyChannel |-> "", already |-> FALSE, pre |-> FALSE,
     reads |-> 0, tries |-> 0, updated |-> 0, reply |-> NoReply, resp |-> NoResp]

StopAnswer(st, status, kind) ==
    [st EXCEPT !.pc = "answered", !.resp = Resp(status, kind)]

\* The stop text after `stop`, trimmed and split at white space: a sequence
\* of fields, each a sequence of atoms.  Atom "id" stands for the 26
\* alphanumeric characters of post id v, "x" for one alphanumeric character,
\* "pl" for the four characters /pl/, "lt" and "gt" for < and >, "dash" for
\* one character of any other kind.
Atom(k) == [k |-> k, v |-> 0]

IdAtom(i) == [k |-> "id", v |-> i]

IdLength == 26

AlnumLength(a) == IF a.k = "id" THEN IdLength ELSE IF a.k = "x" THEN 1 ELSE 0

RECURSIVE AlnumRun(_)
\* how many alphanumeric characters a run of atoms starts with
AlnumRun(as) ==
    IF as = <<>> \/ AlnumLength(Head(as)) = 0 THEN 0
    ELSE AlnumLength(Head(as)) + AlnumRun(Tail(as))

\* the first 26 characters of a run that starts at an id atom are that id;
\* 26 characters made up otherwise are the id of no post
Captured(as) == IF Head(as).k = "id" THEN Head(as).v ELSE GhostId

RECURSIVE LinkInField(_)
\* POST_LINK_REGEX = /\/pl\/([A-Za-z0-9]{26})/ on one field: the leftmost
\* match's group 1, or 0
LinkInField(as) ==
    IF as = <<>> THEN 0
    ELSE IF Head(as).k = "pl" /\ AlnumRun(Tail(as)) >= IdLength THEN Captured(Tail(as))
    ELSE LinkInField(Tail(as))

RECURSIVE LinkMatch(_)
\* trimmed.match(POST_LINK_REGEX): a match cannot span white space, so the
\* leftmost match is in the first field that has one
LinkMatch(fields) ==
    IF fields = <<>> THEN 0
    ELSE IF LinkInField(Head(fields)) # 0 THEN LinkInField(Head(fields))
    ELSE LinkMatch(Tail(fields))

\* a first token that keeps its angle brackets
KeepAngles(as) == as

RECURSIVE DropAngles(_)
\* firstToken.replace(/[<>]/g, "")
DropAngles(as) ==
    IF as = <<>> THEN <<>>
    ELSE IF Head(as).k \in {"lt", "gt"} THEN DropAngles(Tail(as))
    ELSE <<Head(as)>> \o DropAngles(Tail(as))

\* POST_ID_REGEX = /^[A-Za-z0-9]{26}$/
IsPostId(as) ==
    /\ as # <<>>
    /\ \A i \in DOMAIN as : AlnumLength(as[i]) > 0
    /\ AlnumRun(as) = IdLength

\* extractPostIdFromText: the id, or 0 for null
extractPostIdFromText(fields) ==
    IF fields = <<>> THEN 0
    ELSE IF LinkMatch(fields) # 0 THEN LinkMatch(fields)
    ELSE LET firstToken == DropAngles(fields[1])
         IN  IF IsPostId(firstToken) THEN Captured(firstToken) ELSE 0

\* the stop texts users send about post i, by shape
StopTextOf(shape, i) ==
    LET id == <<IdAtom(i)>>
        link == <<Atom("x"), Atom("dash"), Atom("pl"), IdAtom(i)>>
        word == <<Atom("x"), Atom("x")>>
    IN  CASE shape = "id" -> <<id>>
          [] shape = "link" -> <<word, link>>
          [] shape = "junk" -> <<word>>
          [] shape = "empty" -> <<>>
          [] shape = "angleid" -> <<<<Atom("lt")>> \o id \o <<Atom("gt")>>>>
          [] shape = "anglelink" -> <<<<Atom("lt")>> \o link \o <<Atom("gt")>>>>
          [] shape = "longid" -> <<id \o <<Atom("x")>>>>
          [] shape = "longlink" -> <<link \o <<Atom("x")>>>>
          [] shape = "shiftedlink" -> <<<<Atom("pl"), Atom("x"), IdAtom(i)>>>>
          [] shape = "shortlink" -> <<<<Atom("pl")>> \o word>>
          [] shape = "dashid" -> <<id \o <<Atom("dash")>>>>
          [] shape = "secondid" -> <<word, id>>
          [] shape = "ghostthenlink" -> <<<<IdAtom(GhostId)>>, link>>

\* the stop texts of a scenario
StopArgs ==
    {StopTextOf(sh, i) : sh \in scenario.shapes, i \in DOMAIN posts \cup {GhostId}}

\* the reminder row a stop id stands for: its own row, else the row of the
\* root of its thread, else 0
ResolvedRow(id) ==
    IF HasRow(reminders, id) THEN id
    ELSE IF PostExists(id) /\ HasRow(reminders, RootOf(id)) THEN RootOf(id)
    ELSE 0

\* a stop mode that does not compare the token
StopBeginUngated ==
    /\ CanServe
    /\ stop.pc = "idle"
    /\ \E tokenOk \in BOOLEAN, channel \in {"c2", ""}, arg \in StopArgs :
          LET postId == extractPostIdFromText(arg)
              st == [IdleStop EXCEPT !.tokenOk = tokenOk, !.text = arg,
                                     !.channel = channel]
          IN  stop' =
                  IF channel = "" THEN StopAnswer(st, 400, "missing")
                  ELSE IF postId = 0 THEN StopAnswer(st, 200, "usage")
                  ELSE [st EXCEPT !.pc = "direct", !.id = postId,
                                  !.pre = /\ ResolvedRow(postId) # 0
                                          /\ reminders[ResolvedRow(postId)].completed
                                                 = "true"]
    /\ UNCHANGED <<services, summary, tz, clock, schemaDefault, reminders, posts, reactions,
                   scenario, create, cron>>

\* serve, stop mode: token, channel and the stop id
StopBegin ==
    /\ CanServe
    /\ stop.pc = "idle"
    /\ \E tokenOk \in BOOLEAN, channel \in {"c2", ""}, arg \in StopArgs :
          LET postId == extractPostIdFromText(arg)
              st == [IdleStop EXCEPT !.tokenOk = tokenOk, !.text = arg,
                                     !.channel = channel]
          IN  stop' =
                  IF ~tokenOk THEN StopAnswer(st, 403, "forbidden")
                  ELSE IF channel = "" THEN StopAnswer(st, 400, "missing")
                  ELSE IF postId = 0 THEN StopAnswer(st, 200, "usage")
                  ELSE [st EXCEPT !.pc = "direct", !.id = postId,
                                  !.pre = /\ ResolvedRow(postId) # 0
                                          /\ reminders[ResolvedRow(postId)].completed
                                                 = "true"]
    /\ UNCHANGED <<services, summary, tz, clock, schemaDefault, reminders, posts, reactions,
                   scenario, create, cron>>

\* stopReminder: select by the stop id
StopSelectDirect ==
    /\ Quiet
    /\ stop.pc = "direct"
    /\ \E o \in DbOutcomes :
          stop' =
              IF o = "error"
                  THEN StopAnswer([stop EXCEPT !.text = <<>>, !.reads = 1],
                                  500, "selecterr")
              ELSE IF HasRow(reminders, stop.id)
                  THEN [stop EXCEPT
                           !.text = <<>>, !.reads = 1,
                           !.rootId = reminders[stop.id].post_id,
                           !.replyChannel = reminders[stop.id].channel_id,
                           !.already = (reminders[stop.id].completed = "true"),
                           !.pc = "update"]
              ELSE [stop EXCEPT !.text = <<>>, !.reads = 1,
                                !.replyChannel = stop.channel, !.pc = "getpost"]
    /\ UNCHANGED <<services, summary, tz, clock, schemaDefault, reminders, posts, reactions,
                   scenario, create, cron>>

\* stopReminder: getPost and the root of the thread
StopGetPost ==
    /\ Quiet
    /\ stop.pc = "getpost"
    /\ \E o \in Outcomes :
          stop' =
              IF o = "throw" THEN StopAnswer(stop, 500, "thrown")
              ELSE IF o = "fail" \/ ~PostFound(stop.id)
                  THEN StopAnswer(stop, 200, "postnotfound")
              ELSE [stop EXCEPT
                       !.rootId = RootOf(stop.id),
                       !.replyChannel = IF posts[stop.id].channel_id # ""
                                            THEN posts[stop.id].channel_id
                                            ELSE stop.channel,
                       !.pc = "rootselect"]
    /\ UNCHANGED <<services, summary, tz, clock, schemaDefault, reminders, posts, reactions,
                   scenario, create, cron>>

\* stopReminder: select by the root id
StopSelectRoot ==
    /\ Quiet
    /\ stop.pc = "rootselect"
    /\ \E o \in DbOutcomes :
          stop' =
              IF o = "error"
                  THEN StopAnswer([stop EXCEPT !.reads = 2], 500, "selecterr")
              ELSE IF ~HasRow(reminders, stop.rootId)
                  THEN StopAnswer([stop EXCEPT !.reads = 2], 200, "rownotfound")
              ELSE [stop EXCEPT
                       !.reads = 2,
                       !.already = (reminders[stop.rootId].completed = "true"),
                       !.pc = "update"]
    /\ UNCHANGED <<services, summary, tz, clock, schemaDefault, reminders, posts, reactions,
                   scenario, create, cron>>

\* an update keyed by the id the command gave instead of the thread root
StopKeyInitial(st) == st.id

\* the row the stop handler's update is keyed by
StopKey(st) == st.rootId

\* an update whose error is not looked at
StopUpdateUnchecked ==
    /\ Quiet
    /\ stop.pc = "update"
    /\ \E o \in DbOutcomes :
          IF stop.rootId = 0
              THEN /\ stop' = StopAnswer(stop, 200, "noid")
                   /\ reminders' = reminders
          ELSE IF o = "error"
              THEN /\ stop' = [stop EXCEPT !.pc = "reply", !.tries = stop.tries + 1]
                   /\ reminders' = reminders
          ELSE /\ reminders' = DbStop(reminders, StopKey(stop), clock)
               /\ stop' = [stop EXCEPT !.pc = "reply", !.tries = stop.tries + 1,
                                       !.updated = StopKey(stop)]
    /\ UNCHANGED <<services, summary, tz, clock, schemaDefault, posts, reactions, scenario, create, cron>>

\* stopReminder: the update
StopUpdate ==
    /\ Quiet
    /\ stop.pc = "update"
    /\ \E o \in DbOutcomes :
          IF stop.rootId = 0
              THEN /\ stop' = StopAnswer(stop, 200, "noid")
                   /\ reminders' = reminders
          ELSE IF o = "error"
              THEN /\ stop' = StopAnswer([stop EXCEPT !.tries = stop.tries + 1],
                                         500, "updateerr")
                   /\ reminders' = reminders
          ELSE /\ reminders' = DbStop(reminders, StopKey(stop), clock)
               /\ stop' = [stop EXCEPT !.pc = "reply", !.tries = stop.tries + 1,
                                       !.updated = StopKey(stop)]
    /\ UNCHANGED <<services, summary, tz, clock, schemaDefault, posts, reactions, scenario, create, cron>>

\* a stop that does not tell a repeated stop from the first
StopTextSame(already) == "stopped"

\* the text of a stop whose update went through
StopText(already) == IF already THEN "already" ELSE "stopped"

\* stopReminder: the confirmation reply
StopReply ==
    /\ Quiet
    /\ stop.pc = "reply"
    /\ \E o \in Outcomes :
          stop' = [stop EXCEPT
                      !.pc = "replied",
                      !.reply = IF stop.replyChannel = "" THEN NoReply
                                ELSE Reply(stop.replyChannel, stop.rootId,
                                           Message(StopText(stop.already), 0,
                                                   NoDate, <<>>), o)]
    /\ UNCHANGED <<services, summary, tz, clock, schemaDefault, reminders, posts, reactions,
                   scenario, create, cron>>

\* stopReminder: the answer after the reply
StopFinish ==
    /\ stop.pc = "replied"
    /\ stop' = IF stop.reply.result = "throw" THEN StopAnswer(stop, 500, "thrown")
               ELSE StopAnswer(stop, 200, StopText(stop.already))
    /\ UNCHANGED <<services, summary, tz, clock, schemaDefault, reminders, posts, reactions,
                   scenario, create, cron>>

\* the answer is delivered and the request ends
StopReturn ==
    /\ stop.pc = "answered"
    /\ stop' = IdleStop
    /\ UNCHANGED <<services, summary, tz, clock, schemaDefault, reminders, posts, reactions,
                   scenario, create, cron>>

(***************************************************************************)
(* reminder-cron: the evaluation run.                                      *)
(***************************************************************************)
IdleCron ==
    [pc |-> "idle", now |-> 0, list |-> <<>>, idx |-> 1,
     mentors |-> <<>>, missing |-> <<>>, diffDays |-> 0, notified |-> <<>>,
     atLoad |-> {}, fetch |-> "none", gone |-> FALSE, did |-> "none", reply |-> NoReply,
     resp |-> NoResp]

CronAnswer(c, status, kind) ==
    [c EXCEPT !.pc = "answered", !.resp = Resp(status, kind)]

\* the rows a select answers with, in any order
Listings(rs, ids) ==
    {[i \in 1..Cardinality(ids) |-> rs[f[i]]] :
        f \in {g \in [1..Cardinality(ids) -> ids] : Range(g) = ids}}

\* the rows the run loads
SelectOpen(rs) == Listings(rs, OpenIds(rs))

\* new Date(dueDateStr) of a YYYY-MM-DD column value: UTC midnight
DueTime(due) == HoursPerDay * DayNumber(due.y, due.m, due.d)

\* Math.ceil((dueDate.getTime() - now.getTime()) / (1000 * 60 * 60 * 24))
DiffDays(due, now) == CeilDiv(DueTime(due) - now, HoursPerDay)

remindDays == {7, 5, 3, 2, 1}

shouldRemind(diffDays) == diffDays \in remindDays \/ diffDays <= 0

\* the user ids of the reactions whose emoji_name is 'done'
DoneUserIds(rs) == {r.user : r \in {x \in rs : x.emoji = "done"}}

\* the users the run tracks for reminder row r
TrackedUsers(r, mentors) == mentors

\* mentors.filter(m => !doneUserIds.includes(m.id))
Missing(mentors, done) == SeqFilter(mentors, {m \in Range(mentors) : m.id \notin done})

RECURSIVE Usernames(_)
Usernames(users) ==
    IF users = <<>> THEN <<>> ELSE <<Head(users).username>> \o Usernames(Tail(users))

\* the three reply templates
ReplyMessage(diffDays, due, missing) ==
    IF diffDays < 0 THEN Message("overdue", -diffDays, due, Usernames(missing))
    ELSE IF diffDays = 0 THEN Message("today", 0, due, Usernames(missing))
    ELSE Message("before", diffDays, due, Usernames(missing))

\* serve: the select of the open reminders, and now
CronStart ==
    /\ CanServe
    /\ cron.pc = "idle"
    /\ \E o \in DbOutcomes :
          IF o = "error"
              THEN cron' = CronAnswer(IdleCron, 500, "selecterr")
              ELSE \E l \in SelectOpen(reminders) :
                      cron' = [IdleCron EXCEPT !.list = l,
                                               !.now = clock, !.atLoad = reactions,
                                               !.pc = "mentors"]
    /\ UNCHANGED <<services, summary, tz, clock, schemaDefault, reminders, posts, reactions,
                   scenario, create, stop>>

\* serve: getMentors, once per run
CronGetMentors ==
    /\ Quiet
    /\ cron.pc = "mentors"
    /\ \E o \in Outcomes :
          cron' =
              IF o = "throw" THEN CronAnswer(cron, 500, "thrown")
              ELSE IF cron.list = <<>>
                  THEN CronAnswer([cron EXCEPT !.mentors = getMentors(o)],
                                  200, "completed")
              ELSE [cron EXCEPT !.mentors = getMentors(o), !.pc = "loop"]
    /\ UNCHANGED <<services, summary, tz, clock, schemaDefault, reminders, posts, reactions,
                   scenario, create, stop>>

\* the loop body up to `missing`: diffDays and the reactions of the root post
CronGetReactions ==
    /\ Quiet
    /\ cron.pc = "loop"
    /\ LET r == cron.list[cron.idx]
       IN  \E o \in Outcomes :
              cron' =
                  IF o = "throw" THEN CronAnswer(cron, 500, "thrown")
                  ELSE [cron EXCEPT
                           !.diffDays = DiffDays(r.due_date, cron.now),
                           !.fetch = o,
                           !.gone = ~PostFound(r.post_id),
                           !.missing = Missing(TrackedUsers(r, cron.mentors),
                                           DoneUserIds(getReactions(r.post_id, o))),
                           !.pc = "decide"]
    /\ UNCHANGED <<services, summary, tz, clock, schemaDefault, reminders, posts, reactions,
                   scenario, create, stop>>

\* the loop body from `missing` on: complete the reminder, remind, or pass
CronDecide ==
    /\ Quiet
    /\ cron.pc = "decide"
    /\ LET r == cron.list[cron.idx]
       IN  IF cron.missing = <<>>
               THEN \E o \in DbOutcomes :
                       /\ reminders' = IF o = "ok" THEN DbComplete(reminders, r.post_id)
                                       ELSE reminders
                       /\ cron' = [cron EXCEPT !.pc = "decided",
                                      !.did = IF o = "ok" THEN "completed"
                                              ELSE "updateerr"]
           ELSE IF shouldRemind(cron.diffDays)
               THEN /\ \E o \in Outcomes :
                          cron' = [cron EXCEPT
                                      !.pc = "decided", !.did = "reminded",
                                      !.notified = Append(cron.notified, r.post_id),
                                      !.reply = Reply(r.channel_id, r.post_id,
                                                    ReplyMessage(cron.diffDays,
                                                        r.due_date, cron.missing), o)]
                    /\ reminders' = reminders
           ELSE /\ cron' = [cron EXCEPT !.pc = "decided", !.did = "silent"]
                /\ reminders' = reminders
    /\ UNCHANGED <<services, summary, tz, clock, schemaDefault, posts, reactions, scenario, create, stop>>

\* the index of the reminder the loop turns to next
NextIndex(c) == c.idx + 1

\* the run moves on to the next reminder; it answers when there is none,
\* or from the catch when the reply was rejected
CronContinue ==
    /\ cron.pc = "decided"
    /\ LET c == [cron EXCEPT !.idx = NextIndex(cron), !.did = "none",
                             !.reply = NoReply, !.missing = <<>>, !.diffDays = 0,
                             !.fetch = "none", !.gone = FALSE]
       IN  cron' = IF cron.did = "reminded" /\ cron.reply.result = "throw"
                       THEN CronAnswer([c EXCEPT !.idx = cron.idx], 500, "thrown")
                   ELSE IF c.idx > Len(c.list) THEN CronAnswer(c, 200, "completed")
                   ELSE [c EXCEPT !.pc = "loop"]
    /\ UNCHANGED <<services, summary, tz, clock, schemaDefault, reminders, posts, reactions,
                   scenario, create, stop>>

\* the answer is delivered and the run ends
CronReturn ==
    /\ cron.pc = "answered"
    /\ cron' = IdleCron
    /\ UNCHANGED <<services, summary, tz, clock, schemaDefault, reminders, posts, reactions,
                   scenario, create, stop>>

(***************************************************************************)
(* today-channels-summary: the handler and the channels it reads.  A text  *)
(* (purpose, header, message) is a sequence of atoms: "kin" and "no" are   *)
(* the two restriction glyphs, "space" a white space character, "text" a   *)
(* run of other characters.                                                *)
(***************************************************************************)
Glyphs == {"kin", "no"}

\* purpose.includes(g) || header.includes(g) for one of the glyphs
IncludesGlyph(text) == \E i \in DOMAIN text : text[i] \in Glyphs

RECURSIVE TrimStart(_)
TrimStart(text) ==
    IF text # <<>> /\ Head(text) = "space" THEN TrimStart(Tail(text)) ELSE text

\* message.trimStart().startsWith(g) for one of the glyphs
StartsWithGlyph(text) == TrimStart(text) # <<>> /\ Head(TrimStart(text)) \in Glyphs

\* a post of a channel: its message, the index of its thread's root in the
\* channel (0: it is a root), whether create_at is in [start, end), and
\* whether the page the posts endpoint answers with holds it
ChannelPost(message, root, inRange, inPage) ==
    [message |-> message, root_id |-> root, inRange |-> inRange, inPage |-> inPage]

Plain == <<"text">>

\* the posts of a channel
Threads ==
    {<<>>,
     <<ChannelPost(Plain, 0, TRUE, TRUE)>>,
     <<ChannelPost(Plain, 0, FALSE, TRUE)>>,
     <<ChannelPost(<<"kin", "text">>, 0, TRUE, TRUE), ChannelPost(Plain, 1, TRUE, TRUE)>>,
     <<ChannelPost(<<"no", "text">>, 0, FALSE, TRUE), ChannelPost(Plain, 1, TRUE, TRUE)>>,
     <<ChannelPost(<<"kin", "text">>, 0, FALSE, FALSE), ChannelPost(Plain, 1, TRUE, TRUE)>>,
     <<ChannelPost(<<"space", "no">>, 0, TRUE, TRUE), ChannelPost(Plain, 1, TRUE, TRUE)>>,
     <<ChannelPost(<<"text", "kin">>, 0, TRUE, TRUE)>>,
     <<ChannelPost(Plain, 0, TRUE, TRUE), ChannelPost(<<"no">>, 1, TRUE, TRUE)>>}

\* a channel of the team's list
Channel(type, recent, isSummary, notification, purpose, header, thread) ==
    [type |-> type, recent |-> recent, isSummary |-> isSummary,
     notification |-> notification, purpose |-> purpose, header |-> header,
     posts |-> thread]

Channels ==
    {Channel("O", TRUE, FALSE, FALSE, <<>>, <<>>, t) : t \in Threads}
      \cup {Channel("P", TRUE, FALSE, FALSE, <<>>, <<>>, t) : t \in Threads}
      \cup {Channel("O", FALSE, FALSE, FALSE, <<>>, <<>>, t) : t \in Threads}
      \cup {Channel("O", TRUE, TRUE, FALSE, <<>>, <<>>, t) : t \in Threads}
      \cup {Channel("O", TRUE, FALSE, TRUE, <<>>, <<>>, t) : t \in Threads}
      \cup {Channel("O", TRUE, FALSE, FALSE, <<"text", "kin">>, <<>>, t) : t \in Threads}
      \cup {Channel("O", TRUE, FALSE, FALSE, <<"text">>, <<"no", "text">>, t) : t \in Threads}

\* the filter of the channel list: open, posted in since the start of the
\* range, not the summary channel, no "notification" in the display name
IsUpdatedChannel(ch) ==
    ch.type = "O" /\ ch.recent /\ ~ch.isSummary /\ ~ch.notification

\* isRestrictedChannel: false when the channel cannot be fetched
isRestrictedChannel(ch, o) ==
    IF o = "ok" THEN IncludesGlyph(ch.purpose) \/ IncludesGlyph(ch.header) ELSE FALSE

\* isRestrictedThread(p, postsObj): postsObj holds the posts of the page
isRestrictedThread(ch, i) ==
    LET rootId == IF ch.posts[i].root_id # 0 THEN ch.posts[i].root_id ELSE i
    IN  IF ~ch.posts[rootId].inPage THEN FALSE
        ELSE StartsWithGlyph(ch.posts[rootId].message)

\* fetchPostsInRange: the indices of the posts it answers with
fetchPostsInRange(ch, oChannel, oPosts) ==
    IF isRestrictedChannel(ch, oChannel) THEN {}
    ELSE IF oPosts # "ok" THEN {}
    ELSE {i \in DOMAIN ch.posts :
             /\ ch.posts[i].inPage
             /\ ch.posts[i].inRange
             /\ ~isRestrictedThread(ch, i)}

\* what the transcript holds of post i of channel ch, with the message of
\* the root of its thread
Line(ch, i) ==
    [purpose |-> ch.purpose, header |-> ch.header, message |-> ch.posts[i].message,
     rootMessage |-> ch.posts[IF ch.posts[i].root_id # 0 THEN ch.posts[i].root_id
                              ELSE i].message]

SummaryResp(status, kind, content, logs) ==
    [status |-> status, kind |-> kind, content |-> content, logs |-> logs]

\* left: the channels of the list still to come; posted: the posts made in
\* the summary channel; llm, images, voice: the calls made to the generators;
\* decided: the loop over the channels ended and the transcript was tested
IdleSummary ==
    [pc |-> "idle", debug |-> FALSE, type |-> "text", configured |-> FALSE,
     left |-> 0, transcript |-> {}, decided |-> FALSE, image |-> FALSE,
     posted |-> <<>>,
     llm |-> 0, images |-> 0, voice |-> 0,
     resp |-> SummaryResp(0, "none", FALSE, FALSE)]

SummaryAnswer(sm, status, kind, content) ==
    [sm EXCEPT !.pc = "answered",
               !.resp = SummaryResp(status, kind, content,
                                    sm.debug /\ kind # "nochannels" /\ kind # "noupdates")]

\* handler: the query parameters and fetchPublicChannels
SummaryBegin ==
    /\ summary.pc = "idle"
    /\ \E debug \in BOOLEAN, type \in {"text", "audio"}, configured \in BOOLEAN,
          n \in 0..MaxChannels, o \in Outcomes :
          LET sm == [IdleSummary EXCEPT !.debug = debug, !.type = type,
                                        !.configured = configured]
          IN  summary' = IF o # "ok" THEN SummaryAnswer(sm, 500, "nochannels", FALSE)
                         ELSE [sm EXCEPT !.left = n,
                                         !.pc = IF n = 0 THEN "decide" ELSE "loop"]
    /\ UNCHANGED <<services, reminderVars>>

\* handler: the next channel of the list, its posts and their authors' names
SummaryChannel ==
    /\ summary.pc = "loop"
    /\ \E ch \in Channels, oChannel \in Outcomes, oPosts \in Outcomes,
          oName \in Outcomes :
          LET found == IF IsUpdatedChannel(ch)
                           THEN fetchPostsInRange(ch, oChannel, oPosts) ELSE {}
              sm == [summary EXCEPT
                        !.left = summary.left - 1,
                        !.transcript = summary.transcript
                                          \cup {Line(ch, i) : i \in found},
                        !.pc = IF summary.left = 1 THEN "decide" ELSE "loop"]
          IN  summary' = IF found # {} /\ oName = "throw"
                             THEN SummaryAnswer(summary, 500, "thrown", FALSE)
                         ELSE sm
    /\ UNCHANGED <<services, reminderVars>>

\* a transcript that counts as content whatever it holds
HasContentAlways(transcript) == TRUE

\* summaryRaw.trim() is not empty: some channel gave a post
HasContent(transcript) == transcript # {}

\* postToMattermost: nothing is sent when no summary channel is configured,
\* a response that is not OK throws
postToMattermost(sm, kind, o) ==
    IF ~sm.configured THEN [done |-> TRUE, posted |-> sm.posted]
    ELSE IF o = "ok" THEN [done |-> TRUE, posted |-> Append(sm.posted, kind)]
    ELSE [done |-> FALSE, posted |-> sm.posted]

\* handler: no transcript content, postNoUpdates and the early return
SummaryNoUpdates ==
    /\ summary.pc = "decide"
    /\ ~HasContent(summary.transcript)
    /\ \E o \in Outcomes :
          LET sm == [summary EXCEPT !.decided = TRUE]
              sent == postToMattermost(sm, "noupdates", o)
          IN  summary' =
                  IF sent.done
                      THEN SummaryAnswer([sm EXCEPT !.posted = sent.posted],
                                         200, "noupdates", FALSE)
                  ELSE SummaryAnswer(sm, 500, "thrown", FALSE)
    /\ UNCHANGED <<services, reminderVars>>

\* handler: generateAudioSummary (script by the LLM, then the voice), or
\* generateTextSummary and generateSummaryImage (whose failure is caught)
SummaryGenerate ==
    /\ summary.pc = "decide"
    /\ HasContent(summary.transcript)
    /\ \E oLlm \in {"ok", "throw"}, oNext \in {"ok", "throw"} :
          LET sm == [summary EXCEPT !.decided = TRUE, !.llm = summary.llm + 1]
          IN  summary' =
                  IF oLlm = "throw" THEN SummaryAnswer(sm, 500, "thrown", FALSE)
                  ELSE IF sm.type = "audio"
                      THEN IF oNext = "throw"
                               THEN SummaryAnswer([sm EXCEPT !.voice = sm.voice + 1],
                                                  500, "thrown", FALSE)
                           ELSE [sm EXCEPT !.voice = sm.voice + 1, !.pc = "post"]
                  ELSE [sm EXCEPT !.images = sm.images + 1,
                                  !.image = (oNext = "ok"), !.pc = "post"]
    /\ UNCHANGED <<services, reminderVars>>

\* handler: the post of the summary, unless debug, and the response
SummaryPost ==
    /\ summary.pc = "post"
    /\ \E oUpload \in Outcomes, o \in Outcomes :
          LET kind == IF summary.type = "audio" THEN "audio"
                      ELSE IF summary.image THEN "image" ELSE "text"
              uploaded == kind # "image" \/ ~summary.configured \/ oUpload = "ok"
              sent == postToMattermost(summary, kind, o)
          IN  summary' =
                  IF summary.debug THEN SummaryAnswer(summary, 200, "generated", TRUE)
                  ELSE IF uploaded /\ sent.done
                      THEN SummaryAnswer([summary EXCEPT !.posted = sent.posted],
                                         200, "posted", TRUE)
                  ELSE SummaryAnswer(summary, 500, "thrown", FALSE)
    /\ UNCHANGED <<services, reminderVars>>

\* the response is delivered and the request ends
SummaryReturn ==
    /\ summary.pc = "answered"
    /\ summary' = IdleSummary
    /\ UNCHANGED <<services, reminderVars>>

(***************************************************************************)
(* utils/logger.ts: the module's debugLogs array and the console it        *)
(* patches, with the summary requests of the process.  A log line is the   *)
(* number of the request that logged it.                                   *)
(***************************************************************************)
Requests == 1..MaxRequests

\* lines: how many lines the request logged; logs: the logs of its response
IdleRequest == [pc |-> "idle", debug |-> FALSE, lines |-> 0, logs |-> <<>>]

\* capturing: console.log and console.error are the functions that push
IdleLogger ==
    [debugLogs |-> <<>>, capturing |-> FALSE, req |-> [r \in Requests |-> IdleRequest]]

restoreConsole(lg) == [lg EXCEPT !.capturing = FALSE]

setupDebugLogging(lg, debug) ==
    IF debug THEN [lg EXCEPT !.debugLogs = <<>>, !.capturing = TRUE]
    ELSE restoreConsole([lg EXCEPT !.debugLogs = <<>>])

\* console.log(...) or console.error(...) called by request r
consoleLog(lg, r) ==
    [lg EXCEPT !.debugLogs = IF lg.capturing THEN Append(lg.debugLogs, r)
                             ELSE lg.debugLogs,
               !.req[r].lines = lg.req[r].lines + 1]

getDebugLogs(lg) == lg.debugLogs

\* handler: the query parameters, setupDebugLogging and the lines logged
\* before the first await
RequestBegin(r) ==
    /\ logger.req[r].pc = "idle"
    /\ \E debug \in BOOLEAN :
          logger' = consoleLog(
              setupDebugLogging([logger EXCEPT !.req[r].pc = "running",
                                               !.req[r].debug = debug], debug), r)
    /\ UNCHANGED <<reminderVars, summary, synth, range, stream>>

\* handler: a line logged after an await
RequestLog(r) ==
    /\ logger.req[r].pc = "running"
    /\ logger.req[r].lines < MaxLines
    /\ logger' = consoleLog(logger, r)
    /\ UNCHANGED <<reminderVars, summary, synth, range, stream>>

\* handler: the response, with getDebugLogs() when debug, then finally
RequestReturn(r) ==
    /\ logger.req[r].pc = "running"
    /\ logger' = restoreConsole(
           [logger EXCEPT !.req[r].pc = "answered",
                          !.req[r].logs = IF logger.req[r].debug
                                              THEN getDebugLogs(logger) ELSE <<>>])
    /\ UNCHANGED <<reminderVars, summary, synth, range, stream>>

(***************************************************************************)
(* services/audio.ts, synthesizeWithVoiceVox: one promise per chunk of the *)
(* script, Promise.all, and the merge.  A synthesized buffer is the index  *)
(* of its chunk.                                                           *)
(***************************************************************************)
ChunkIds == 1..MaxChunks

\* pc: "unused", "delay" (the staggered timer), "query", "synthesis",
\* "settled"; result: "pending", "null" or "buffer"; queries and syntheses
\* count the requests sent for the chunk
IdleChunk == [pc |-> "unused", result |-> "pending", queries |-> 0, syntheses |-> 0]

\* n: the number of chunks; order: the chunks in the order their promises
\* settled; merged: the chunks of the merged audio; result: what the function
\* returns
IdleSynth ==
    [pc |-> "idle", n |-> 0, chunk |-> [i \in ChunkIds |-> IdleChunk],
     order |-> <<>>, merged |-> <<>>, result |-> "none"]

\* chunks.map(async (chunk, i) => ...): every promise starts with its timer
SynthBegin ==
    /\ synth.pc = "idle"
    /\ \E n \in ChunkIds :
          synth' = [synth EXCEPT
                       !.pc = "running", !.n = n,
                       !.chunk = [i \in ChunkIds |->
                                     IF i <= n THEN [IdleChunk EXCEPT !.pc = "delay"]
                                     ELSE IdleChunk]]
    /\ UNCHANGED <<reminderVars, summary, logger, range, stream>>

\* the timer of chunk i fires (i * 50 ms: after those of the chunks before
\* it) and the audio_query request is sent
SynthQuery(i) ==
    /\ synth.pc = "running"
    /\ synth.chunk[i].pc = "delay"
    /\ \A j \in ChunkIds : j < i => synth.chunk[j].pc # "delay"
    /\ synth' = [synth EXCEPT !.chunk[i].pc = "query",
                               !.chunk[i].queries = synth.chunk[i].queries + 1]
    /\ UNCHANGED <<reminderVars, summary, logger, range, stream>>

\* the promise of chunk i settles with a value (it never rejects)
Settle(sy, i, result) ==
    [sy EXCEPT !.chunk[i].pc = "settled", !.chunk[i].result = result,
               !.order = Append(sy.order, i)]

\* the audio_query response of chunk i: on success the synthesis request is
\* sent, otherwise the promise gives null
SynthQueryResponse(i) ==
    /\ synth.pc = "running"
    /\ synth.chunk[i].pc = "query"
    /\ \E o \in Outcomes :
          synth' = IF o = "ok"
                       THEN [synth EXCEPT
                                !.chunk[i].pc = "synthesis",
                                !.chunk[i].syntheses = synth.chunk[i].syntheses + 1]
                   ELSE Settle(synth, i, "null")
    /\ UNCHANGED <<reminderVars, summary, logger, range, stream>>

\* the synthesis response of chunk i
SynthSynthesisResponse(i) ==
    /\ synth.pc = "running"
    /\ synth.chunk[i].pc = "synthesis"
    /\ \E o \in Outcomes :
          synth' = Settle(synth, i, IF o = "ok" THEN "buffer" ELSE "null")
    /\ UNCHANGED <<reminderVars, summary, logger, range, stream>>

\* await Promise.all(audioPromises)
AllSettled(sy) == \A i \in 1..sy.n : sy.chunk[i].pc = "settled"

RECURSIVE ValidUpTo(_, _)
\* audioBuffers[result.index] = result.buffer for the results that have a
\* buffer, then audioBuffers.filter((buffer) => buffer != null)
ValidUpTo(sy, k) ==
    IF k = 0 THEN <<>>
    ELSE IF sy.chunk[k].result = "buffer" THEN Append(ValidUpTo(sy, k - 1), k)
    ELSE ValidUpTo(sy, k - 1)

\* buffers kept in the order in which the promises settled
ValidBuffersAsSettled(sy) ==
    SelectSeq(sy.order, LAMBDA i : sy.chunk[i].result = "buffer")

ValidBuffers(sy) == ValidUpTo(sy, sy.n)

\* the join, mergeWavFiles (the audio data of the buffers, in their order)
\* and the upload: the public URL, the data URL when the upload gives an
\* error, null when something throws
SynthJoin ==
    /\ synth.pc = "running"
    /\ AllSettled(synth)
    /\ \E o \in {"url", "dataurl", "null"} :
          LET validBuffers == ValidBuffers(synth)
          IN  synth' = IF validBuffers = <<>>
                           THEN [synth EXCEPT !.pc = "returned", !.result = "null"]
                       ELSE [synth EXCEPT !.pc = "returned", !.merged = validBuffers,
                                          !.result = o]
    /\ UNCHANGED <<reminderVars, summary, logger, range, stream>>

(***************************************************************************)
(* today-channels-summary, getTimeRange and the selection of a channel's   *)
(* posts by time.  Instants are hours UTC, as the clock.                   *)
(***************************************************************************)
jstOffset == 9

\* the instant of new Date(y, m, d, 0, 0, 0, 0) for local day number n
LocalMidnight(n, zone) == HoursPerDay * n - zone

\* getTimeRange: nowJST is now shifted by jstOffset, its date is read with
\* the local getters and turned into local midnights, shifted back
getTimeRange(now, zone, forToday) ==
    LET nowJST == now + jstOffset
        today == FloorDiv(nowJST + zone, HoursPerDay)
        endOfYesterdayUTC == LocalMidnight(today, zone) - jstOffset
        startOfYesterdayUTC == LocalMidnight(today - 1, zone) - jstOffset
    IN  [startTimeUTC |-> IF forToday THEN endOfYesterdayUTC ELSE startOfYesterdayUTC,
         endTimeUTC |-> IF forToday THEN now ELSE endOfYesterdayUTC]

\* the instants channels and posts carry: the JST midnights around the
\* third of March 2025, the hours before them, and hours between
Instants ==
    {HoursPerDay * DayNumber(2025, 3, 3) + k :
        k \in {-34, -33, -25, -10, -9, -1, 0, 8, 14, 15, 23}}

PagePost(id, at) == [id |-> id, create_at |-> at]

\* the pages of a channel whose posts are not later than now, in any order
Pages(now) ==
    LET past == {t \in Instants : t <= now}
    IN  UNION {[1..n -> past] : n \in 0..MaxPagePosts}

RECURSIVE InsertByCreateAt(_, _)
InsertByCreateAt(sorted, p) ==
    IF sorted = <<>> THEN <<p>>
    ELSE IF p.create_at < Head(sorted).create_at THEN <<p>> \o sorted
    ELSE <<Head(sorted)>> \o InsertByCreateAt(Tail(sorted), p)

RECURSIVE SortByCreateAt(_)
\* result.sort((a, b) => a.create_at - b.create_at), a stable sort
SortByCreateAt(ps) ==
    IF ps = <<>> THEN <<>>
    ELSE InsertByCreateAt(SortByCreateAt(SubSeq(ps, 1, Len(ps) - 1)), ps[Len(ps)])

\* fetchPostsInRange for a channel without restriction whose page is fetched
PostsInRange(page, startUTC, endUTC) ==
    SortByCreateAt(SelectSeq([i \in DOMAIN page |-> PagePost(i, page[i])],
                             LAMBDA p : p.create_at >= startUTC /\ p.create_at < endUTC))

IdleRange ==
    [pc |-> "idle", forToday |-> FALSE, now |-> 0, startTimeUTC |-> 0, endTimeUTC |-> 0,
     type |-> "O", last_post_at |-> 0, isSummary |-> FALSE, notification |-> FALSE,
     page |-> <<>>, posts |-> <<>>]

\* handler: getTimeRange(forToday)
RangeBegin ==
    /\ range.pc = "idle"
    /\ \E forToday \in BOOLEAN :
          LET r == getTimeRange(clock, tz, forToday)
          IN  range' = [IdleRange EXCEPT !.pc = "ranged", !.forToday = forToday,
                                         !.now = clock,
                                         !.startTimeUTC = r.startTimeUTC,
                                         !.endTimeUTC = r.endTimeUTC]
    /\ UNCHANGED <<reminderVars, summary, logger, synth, stream>>

\* handler: a channel of the list, the filter and its posts in the range
RangeChannel ==
    /\ range.pc = "ranged"
    /\ \E type \in {"O", "P"}, isSummary \in BOOLEAN, notification \in BOOLEAN,
          page \in Pages(range.now) :
          \E last \in IF page = <<>> THEN {t \in Instants : t <= range.now}
                       ELSE {page[i] : i \in DOMAIN page} :
              LET updated == /\ type = "O"
                             /\ last >= range.startTimeUTC
                             /\ ~isSummary
                             /\ ~notification
              IN  range' = [range EXCEPT
                               !.pc = "selected", !.type = type, !.last_post_at = last,
                               !.isSummary = isSummary, !.notification = notification,
                               !.page = page,
                               !.posts = IF updated
                                             THEN PostsInRange(page, range.startTimeUTC,
                                                               range.endTimeUTC)
                                         ELSE <<>>]
    /\ UNCHANGED <<reminderVars, summary, logger, synth, stream>>

\* the request ends
RangeReturn ==
    /\ range.pc = "selected"
    /\ range' = IdleRange
    /\ UNCHANGED <<reminderVars, summary, logger, synth, stream>>

(***************************************************************************)
(* services/audio.ts, waitForAudioCompletion.  The stream is a sequence of *)
(* pieces: every line is a head piece, a tail piece and, when it is        *)
(* terminated, a newline piece; a read gives any number of pieces.         *)
(***************************************************************************)
\* the lines of a stream: `data: ` events with a url and status completed
\* or waiting, with status completed but no url, with another status, with
\* status error or timeout, and a line that is no `data: ` line
StreamLines == {"completed", "waiting", "nourl", "progress", "error", "timeout", "other"}

Piece(part, line) == [part |-> part, line |-> line]

NewLine == Piece("nl", "")

RECURSIVE Encode(_, _)
\* the pieces of the lines; the last line has its newline when terminated
Encode(lines, terminated) ==
    IF lines = <<>> THEN <<>>
    ELSE <<Piece("head", Head(lines)), Piece("tail", Head(lines))>>
            \o (IF Len(lines) > 1 \/ terminated THEN <<NewLine>> ELSE <<>>)
            \o Encode(Tail(lines), terminated)

\* the streams a server sends
Streams ==
    {[lines |-> l, terminated |-> t] :
        l \in UNION {[1..n -> StreamLines] : n \in 0..MaxEvents}, t \in BOOLEAN}

RECURSIVE SplitLines(_, _, _)
\* buffer.split("\n"): the pieces between the newlines, the last of them
\* being what follows the last newline
SplitLines(buffer, cur, acc) ==
    IF buffer = <<>> THEN Append(acc, cur)
    ELSE IF Head(buffer) = NewLine THEN SplitLines(Tail(buffer), <<>>, Append(acc, cur))
    ELSE SplitLines(Tail(buffer), Append(cur, Head(buffer)), acc)

\* buffer = lines.pop() || ""
Leftover(buffer) ==
    LET lines == SplitLines(buffer, <<>>, <<>>) IN lines[Len(lines)]

\* the lines before the last newline
CompleteLines(buffer) ==
    LET lines == SplitLines(buffer, <<>>, <<>>) IN SubSeq(lines, 1, Len(lines) - 1)

\* what the loop does with a line: "url" and "null" return, "none" goes on
OnLine(line) ==
    IF line \in {"completed", "waiting"} THEN "url"
    ELSE IF line \in {"error", "timeout"} THEN "null"
    ELSE "none"

\* JSON.parse(line.slice(6)) of a line that starts with "data: "
LineOf(raw) ==
    IF Len(raw) = 2 /\ raw[1].part = "head" /\ raw[2].part = "tail"
          /\ raw[1].line = raw[2].line
        THEN raw[1].line
    ELSE "other"

RECURSIVE OnLines(_)
\* for (const line of lines): the first line that returns
OnLines(raws) ==
    IF raws = <<>> THEN "none"
    ELSE IF OnLine(LineOf(Head(raws))) # "none" THEN OnLine(LineOf(Head(raws)))
    ELSE OnLines(Tail(raws))

\* sent: what the server sent; bytes: what is still to be read; buffer: the
\* reader's buffer; reads: the reads that gave data; cut: a read ended
\* inside a line
IdleStream ==
    [pc |-> "idle", sent |-> [lines |-> <<>>, terminated |-> FALSE], bytes |-> <<>>,
     buffer |-> <<>>, reads |-> 0, cut |-> FALSE, result |-> "none"]

\* fetch(eventsUrl) and getReader()
StreamOpen ==
    /\ stream.pc = "idle"
    /\ \E st \in Streams, o \in Outcomes :
          stream' = IF o = "ok"
                        THEN [IdleStream EXCEPT !.pc = "reading", !.sent = st,
                                                !.bytes = Encode(st.lines, st.terminated)]
                    ELSE [IdleStream EXCEPT !.pc = "returned", !.result = "null"]
    /\ UNCHANGED <<reminderVars, summary, logger, synth, range>>

\* reader.read() gives a chunk: the buffer, its lines, and the return
StreamRead ==
    /\ stream.pc = "reading"
    /\ stream.bytes # <<>>
    /\ \E n \in 1..Len(stream.bytes) :
          LET buffer == stream.buffer \o SubSeq(stream.bytes, 1, n)
              rest == SubSeq(stream.bytes, n + 1, Len(stream.bytes))
              found == OnLines(CompleteLines(buffer))
              st == [stream EXCEPT !.bytes = rest, !.buffer = Leftover(buffer),
                                   !.reads = stream.reads + 1,
                                   !.cut = stream.cut \/ Leftover(buffer) # <<>>]
          IN  stream' = IF found = "none" THEN st
                        ELSE [st EXCEPT !.pc = "returned", !.result = found]
    /\ UNCHANGED <<reminderVars, summary, logger, synth, range>>

\* reader.read() gives done: the stream ended without completion
StreamDone ==
    /\ stream.pc = "reading"
    /\ stream.bytes = <<>>
    /\ stream' = [stream EXCEPT !.pc = "returned", !.result = "null"]
    /\ UNCHANGED <<reminderVars, summary, logger, synth, range>>

(***************************************************************************)
(* The system.                                                             *)
(***************************************************************************)
\* the first fields and the texts the lifecycle is run with
DueField == YmdField(2025, 3, 10)

LifeTexts ==
    {Text(DueField, <<<<"@", "alice">>, <<"Ship">>>>, FALSE),
     Text(WordField, <<<<"@", "alice">>, <<"Ship">>>>, FALSE)}

\* what the users do
Scenario(texts, nposts, nreminders, nreactions, ndays, ndeleted) ==
    [texts |-> texts, shapes |-> {"id", "link", "junk"}, posts |-> nposts,
     reminders |-> nreminders, reactions |-> nreactions, days |-> ndays,
     deleted |-> ndeleted, inflight |-> MaxInFlight]

InitWith(zones, clocks, sc) ==
    /\ tz \in zones
    /\ clock \in clocks
    /\ schemaDefault \in {"null", "false"}
    /\ reminders = <<>>
    /\ posts = <<>>
    /\ reactions = {}
    /\ scenario = sc
    /\ create = IdleCreate
    /\ stop = IdleStop
    /\ cron = IdleCron
    /\ summary = IdleSummary
    /\ logger = IdleLogger
    /\ synth = IdleSynth
    /\ range = IdleRange
    /\ stream = IdleStream

Init ==
    InitWith({0}, {StartClock},
             Scenario(LifeTexts, MaxPosts, MaxReminders, MaxReactions, MaxDays, 0))

Next ==
    \/ React
    \/ UserReply
    \/ Tick
    \/ CreateMentorsBegin
    \/ CreateReminderBegin
    \/ CreateExpand
    \/ CreatePost
    \/ CreateUpdatePost
    \/ CreateUpsert
    \/ CreateReturn
    \/ StopBegin
    \/ StopSelectDirect
    \/ StopGetPost
    \/ StopSelectRoot
    \/ StopUpdate
    \/ StopReply
    \/ StopFinish
    \/ StopReturn
    \/ CronStart
    \/ CronGetMentors
    \/ CronGetReactions
    \/ CronDecide
    \/ CronContinue
    \/ CronReturn

Spec == Init /\ [][Next]_vars

(***************************************************************************)
(* Evaluation runs over reminders whose threads users reply and react in,  *)
(* seven days before the due date.                                         *)
(***************************************************************************)
EvalTexts == {Text(DueField, <<<<"@", "alice">>, <<"Ship">>>>, FALSE)}

InitEval ==
    InitWith({0}, {StartClock},
             Scenario(EvalTexts, EvalPosts, EvalReminders, EvalReactions, 0, 0))

NextEval ==
    \/ React
    \/ UserReply
    \/ CreateMentorsBegin
    \/ CreateReminderBegin
    \/ CreateExpand
    \/ CreatePost
    \/ CreateUpdatePost
    \/ CreateUpsert
    \/ CreateReturn
    \/ CronStart
    \/ CronGetMentors
    \/ CronGetReactions
    \/ CronDecide
    \/ CronContinue
    \/ CronReturn

SpecEval == InitEval /\ [][NextEval]_vars

(***************************************************************************)
(* Evaluation runs over a reminder whose root post a user may delete.      *)
(***************************************************************************)
InitGone ==
    InitWith({0}, {StartClock},
             Scenario(EvalTexts, OnePost, OnePost, MaxReactions, 0, MaxDeleted))

NextGone ==
    \/ React
    \/ DeletePost
    \/ CreateMentorsBegin
    \/ CreateReminderBegin
    \/ CreateExpand
    \/ CreatePost
    \/ CreateUpdatePost
    \/ CreateUpsert
    \/ CreateReturn
    \/ CronStart
    \/ CronGetMentors
    \/ CronGetReactions
    \/ CronDecide
    \/ CronContinue
    \/ CronReturn

SpecGone == InitGone /\ [][NextGone]_vars

(***************************************************************************)
(* Single creation requests: first fields of every kind under several      *)
(* server time zones, and mention runs of every kind.                      *)
(***************************************************************************)
NextCreate ==
    \/ CreateMentorsBegin
    \/ CreateReminderBegin
    \/ CreateExpand
    \/ CreatePost
    \/ CreateUpdatePost
    \/ CreateUpsert
    \/ CreateReturn

DateZones == {-5, 0, 9}

DateFields ==
    {YmdField(2025, 3, 10), YmdField(2024, 2, 29), YmdField(2025, 1, 1),
     YmdField(2025, 12, 31), YmdField(2025, 2, 30), YmdField(2025, 4, 31),
     YmdField(2025, 13, 1), YmdField(2025, 3, 0), YmdField(2025, 3, 32),
     YmField(2025, 3), WordField}

DateTexts == {Text(f, <<<<"@", "alice">>, <<"Ship">>>>, FALSE) : f \in DateFields}

InitDates ==
    InitWith(DateZones, {StartClock}, Scenario(DateTexts, OnePost, OnePost, 0, 0, 0))

SpecDates == InitDates /\ [][NextCreate]_vars

\* mention tokens: a user, a user whose name a group carries too, a group,
\* a name nobody has, and tokens with a second '@'
MentionTokens ==
    {<<"@", "alice">>, <<"@", "bob">>, <<"@", "devs">>, <<"@", "zed">>,
     <<"@", "@", "bob">>, <<"@", "@">>}

MentionRuns == UNION {[1..n -> MentionTokens] : n \in 1..MaxMentions}

MentionTexts == {Text(DueField, ms \o <<<<"Ship">>>>, FALSE) : ms \in MentionRuns}

InitMentions ==
    InitWith({0}, {StartClock}, Scenario(MentionTexts, OnePost, OnePost, 0, 0, 0))

\* Mention resolution alone: the request is followed up to the resolved list.
NextMentions ==
    \/ CreateReminderBegin
    \/ CreateExpand
    \/ CreateReturn

SpecMentions == InitMentions /\ [][NextMentions]_vars

\* texts whose mention run is or is not followed by a body
BodyRuns == UNION {[1..n -> {<<"@", "alice">>, <<"@", "bob">>}] : n \in 0..MaxMentions}

BodyTexts ==
    {Text(DueField, ms \o body, trail) :
        ms \in BodyRuns, body \in {<<>>, <<<<"Ship">>>>}, trail \in BOOLEAN}

InitBody ==
    InitWith({0}, {StartClock}, Scenario(BodyTexts, OnePost, OnePost, 0, 0, 0))

SpecBody == InitBody /\ [][NextCreate]_vars

(***************************************************************************)
(* Evaluation runs on the days around a due date, at several hours of the  *)
(* day and under several server time zones.                                *)
(***************************************************************************)
SoonField == YmdField(2025, 3, 5)

SoonTexts == {Text(SoonField, <<<<"@", "alice">>, <<"Ship">>>>, FALSE)}

\* the hours of the day (UTC) at which the runs take place
RunHours == {0, 8, 15, 23}

InitDays ==
    InitWith(DateZones, {HoursPerDay * DayNumber(2025, 3, 3) + h : h \in RunHours},
             Scenario(SoonTexts, OnePost, OnePost, MaxReactions, WatchDays, 0))

NextDays ==
    \/ React
    \/ Tick
    \/ CreateMentorsBegin
    \/ CreateReminderBegin
    \/ CreateExpand
    \/ CreatePost
    \/ CreateUpdatePost
    \/ CreateUpsert
    \/ CreateReturn
    \/ CronStart
    \/ CronGetMentors
    \/ CronGetReactions
    \/ CronDecide
    \/ CronContinue
    \/ CronReturn

SpecDays == InitDays /\ [][NextDays]_vars

(***************************************************************************)
(* The time range of a summary request and the posts it selects, at        *)
(* several hours of the day and under several server time zones.           *)
(***************************************************************************)
InitRange ==
    InitWith(DateZones, {HoursPerDay * DayNumber(2025, 3, 3) + h : h \in RunHours},
             Scenario({}, 0, 0, 0, 0, 0))

NextRange ==
    \/ RangeBegin
    \/ RangeChannel
    \/ RangeReturn

SpecRange == InitRange /\ [][NextRange]_vars

(***************************************************************************)
(* Event streams of every kind, read in chunks of every size.              *)
(***************************************************************************)
NextStream ==
    \/ StreamOpen
    \/ StreamRead
    \/ StreamDone

InitStream == InitWith({0}, {StartClock}, Scenario({}, 0, 0, 0, 0, 0))

SpecStream == InitStream /\ [][NextStream]_vars

(***************************************************************************)
(* Requests to today-channels-summary.                                     *)
(***************************************************************************)
InitSummary == InitWith({0}, {StartClock}, Scenario({}, 0, 0, 0, 0, 0))

NextSummary ==
    \/ SummaryBegin
    \/ SummaryChannel
    \/ SummaryNoUpdates
    \/ SummaryGenerate
    \/ SummaryPost
    \/ SummaryReturn

SpecSummary == InitSummary /\ [][NextSummary]_vars

(***************************************************************************)
(* Summary requests interleaved in one process, and their logging.         *)
(***************************************************************************)
NextLogger ==
    \E r \in Requests :
        \/ RequestBegin(r)
        \/ RequestLog(r)
        \/ RequestReturn(r)

SpecLogger == InitSummary /\ [][NextLogger]_vars

(***************************************************************************)
(* The synthesis of the chunks of one script.                              *)
(***************************************************************************)
NextSynth ==
    \/ SynthBegin
    \/ \E i \in ChunkIds :
          \/ SynthQuery(i)
          \/ SynthQueryResponse(i)
          \/ SynthSynthesisResponse(i)
    \/ SynthJoin

SpecSynth == InitSummary /\ [][NextSynth]_vars

(***************************************************************************)
(* Stop commands of every shape, about a reminder, a post without a row    *)
(* and an id no post has.                                                  *)
(***************************************************************************)
StopShapes ==
    {"id", "link", "junk", "empty", "angleid", "anglelink", "longid", "longlink",
     "shiftedlink", "shortlink", "dashid", "secondid", "ghostthenlink"}

InitStop ==
    InitWith({0}, {StartClock},
             [Scenario(EvalTexts, OnePost, OnePost, 0, 0, 0) EXCEPT !.shapes = StopShapes])

NextStop ==
    \/ CreateMentorsBegin
    \/ CreateReminderBegin
    \/ CreateExpand
    \/ CreatePost
    \/ CreateUpdatePost
    \/ CreateUpsert
    \/ CreateReturn
    \/ StopBegin
    \/ StopSelectDirect
    \/ StopGetPost
    \/ StopSelectRoot
    \/ StopUpdate
    \/ StopReply
    \/ StopFinish
    \/ StopReturn

SpecStop == InitStop /\ [][NextStop]_vars

(***************************************************************************)
(* A stop command served while an evaluation run is under way.             *)
(***************************************************************************)
InitRace ==
    InitWith({0}, {StartClock},
             [Scenario(EvalTexts, OnePost, OnePost, 0, 0, 0)
                 EXCEPT !.inflight = RaceInFlight])

NextRace ==
    \/ CreateMentorsBegin
    \/ CreateReminderBegin
    \/ CreateExpand
    \/ CreatePost
    \/ CreateUpdatePost
    \/ CreateUpsert
    \/ CreateReturn
    \/ StopBegin
    \/ StopSelectDirect
    \/ StopGetPost
    \/ StopSelectRoot
    \/ StopUpdate
    \/ StopReply
    \/ StopFinish
    \/ StopReturn
    \/ CronStart
    \/ CronGetMentors
    \/ CronGetReactions
    \/ CronDecide
    \/ CronContinue
    \/ CronReturn

SpecRace == InitRace /\ [][NextRace]_vars

(***************************************************************************)
(* Properties of the reminder rows, of the stop command and of creation,   *)
(* checked on Spec.                                                        *)
(***************************************************************************)
ListIds(l) == {l[i].post_id : i \in DOMAIN l}

RunTakesExactlyOpenRows ==
    /\ [][(cron.pc = "idle" /\ cron'.pc = "mentors") =>
             /\ ListIds(cron'.list) =
                   {id \in DOMAIN reminders :
                       reminders[id].completed \in {"null", "false"}}
             /\ Len(cron'.list) = Cardinality(ListIds(cron'.list))
             /\ \A i \in DOMAIN cron'.list :
                   cron'.list[i] = reminders[cron'.list[i].post_id]]_vars
    /\ [][(cron' # cron /\ cron.pc # "idle") =>
             /\ \A id \in DOMAIN reminders :
                   reminders'[id] # reminders[id] => id \in ListIds(cron.list)
             /\ (cron'.pc # "idle" /\ cron'.notified # cron.notified) =>
                   /\ Len(cron'.notified) = Len(cron.notified) + 1
                   /\ cron'.notified[Len(cron'.notified)] \in ListIds(cron.list)]_vars
    /\ [](\A i \in DOMAIN cron.list : cron.list[i].completed \in {"null", "false"})

\* a run has dealt with an open reminder while a completed one was left out
RunPassedOverCompletedRow ==
    /\ cron.pc = "decided"
    /\ cron.did \in {"reminded", "completed"}
    /\ \E id \in DOMAIN reminders :
          reminders[id].completed = "true" /\ id \notin ListIds(cron.list)

\* C5 as stated: a stop command for a reminder that is completed already is
\* answered 200 with the 'already stopped' text.
StopOnCompletedSaysAlready ==
    (stop.pc = "answered" /\ stop.pre) => stop.resp = Resp(200, "already")

\* C5, amended: a stop command for a reminder that is completed already
\* leaves it completed, and it is answered 200 'already stopped' (not the
\* text of a first stop) when its selects and its update succeed and its
\* fetches are not rejected; a datastore error or a rejected fetch is
\* answered 500, and a post fetch that is not OK the 200 post-not-found text.
StopOnCompletedUnlessFailure ==
    /\ stop.pre => reminders[ResolvedRow(stop.id)].completed = "true"
    /\ (stop.pc = "answered" /\ stop.pre) =>
          \/ /\ stop.resp = Resp(200, "already")
             /\ stop.updated = ResolvedRow(stop.id)
             /\ stop.reply.message.kind = "already"
             /\ stop.reply.result # "throw"
          \/ /\ stop.resp = Resp(500, "thrown")
             /\ stop.reply.result = "throw" \/ stop.updated = 0
          \/ /\ stop.resp \in {Resp(500, "selecterr"), Resp(500, "updateerr")}
             /\ stop.updated = 0
          \/ /\ stop.resp = Resp(200, "postnotfound")
             /\ stop.updated = 0
             /\ ~HasRow(reminders, stop.id)
    /\ (stop.pc = "answered" /\ stop.resp.status = 200 /\ stop.updated # 0) =>
          stop.resp.kind = (IF stop.already THEN "already" ELSE "stopped")

\* a stop of a completed reminder has been answered 'already stopped'
StoppedAgain ==
    /\ stop.pc = "answered"
    /\ stop.pre
    /\ stop.resp = Resp(200, "already")
    /\ reminders[stop.updated].completed = "true"

\* C6: the stop id X is resolved to X's own row when there is one, else to
\* the row of the root of the thread of post X; when post X does not exist
\* or that root has no row the answer is the 200 not-found text and no row
\* is touched; the only row a stop ever modifies is the resolved one, which
\* becomes completed.  (A datastore error or a rejected fetch ends the
\* command with 500 before that.)
StopResolvesRoot ==
    [][stop' # stop =>
          /\ (stop.pc = "direct" /\ HasRow(reminders, stop.id)) =>
                \/ stop'.pc = "update" /\ stop'.rootId = stop.id
                \/ stop'.pc = "answered" /\ stop'.resp = Resp(500, "selecterr")
          /\ (stop.pc = "direct" /\ ~HasRow(reminders, stop.id)) =>
                \/ stop'.pc = "getpost"
                \/ stop'.pc = "answered" /\ stop'.resp = Resp(500, "selecterr")
          /\ (stop.pc = "getpost" /\ ~PostExists(stop.id)) =>
                /\ stop'.pc = "answered"
                /\ stop'.resp \in {Resp(200, "postnotfound"), Resp(500, "thrown")}
          /\ (stop.pc = "getpost" /\ PostExists(stop.id)) =>
                \/ /\ stop'.pc = "rootselect"
                   /\ stop'.rootId = (IF posts[stop.id].root_id # 0
                                          THEN posts[stop.id].root_id ELSE stop.id)
                \/ /\ stop'.pc = "answered"
                   /\ stop'.resp \in {Resp(200, "postnotfound"), Resp(500, "thrown")}
          /\ (stop.pc = "rootselect" /\ ~HasRow(reminders, stop.rootId)) =>
                /\ stop'.pc = "answered"
                /\ stop'.resp \in {Resp(200, "rownotfound"), Resp(500, "selecterr")}
          /\ (stop.pc = "rootselect" /\ HasRow(reminders, stop.rootId)) =>
                \/ stop'.pc = "update"
                \/ stop'.pc = "answered" /\ stop'.resp = Resp(500, "selecterr")
          /\ stop.pc = "update" =>
                \/ /\ stop'.pc = "reply"
                   /\ stop'.updated = ResolvedRow(stop.id)
                   /\ stop'.updated # 0
                   /\ reminders'[stop'.updated].completed = "true"
                   /\ \A id \in DOMAIN reminders :
                         id # stop'.updated => reminders'[id] = reminders[id]
                \/ /\ stop'.pc = "answered"
                   /\ stop'.resp = Resp(500, "updateerr")
                   /\ reminders' = reminders
          /\ stop.pc # "update" => reminders' = reminders
          /\ stop'.pc = "answered" => stop'.updated = stop.updated]_vars

\* a stop given the id of a reply has completed the row of the thread's root
StoppedThroughReply ==
    /\ stop.pc = "reply"
    /\ PostExists(stop.id)
    /\ posts[stop.id].root_id # 0
    /\ stop.updated = posts[stop.id].root_id
    /\ reminders[stop.updated].completed = "true"
    /\ ~stop.already

\* C8: every row is keyed by a root post that exists; a request that has
\* written its row has created one post before and the row is under that
\* post's id; a request answered with the success text has created exactly
\* one post and written exactly one row; a failed post creation is answered
\* 500 with no post and no row; a failed upsert is answered 500 and the
\* created post has no row.
RowAfterPostOnly ==
    /\ \A id \in DOMAIN reminders : PostExists(id) /\ posts[id].root_id = 0
    /\ create.wrote > 0 =>
          /\ create.made = 1
          /\ PostExists(create.postId)
          /\ HasRow(reminders, create.postId)
          /\ reminders[create.postId].post_id = create.postId
    /\ (create.pc = "answered" /\ create.resp.kind = "success") =>
          /\ create.resp.status = 200
          /\ create.made = 1
          /\ create.wrote = 1
    /\ (create.pc = "answered" /\ create.resp.kind = "postfail") =>
          /\ create.resp.status = 500
          /\ create.made = 0
          /\ create.wrote = 0
    /\ (create.pc = "answered" /\ create.resp.kind = "upserterr") =>
          /\ create.resp.status = 500
          /\ create.made = 1
          /\ create.wrote = 0
          /\ ~HasRow(reminders, create.postId)
    /\ create.pc \in {"idle", "expand", "post"} => create.made = 0 /\ create.wrote = 0
    /\ create.wrote <= 1 /\ create.made <= 1

\* a creation whose upsert failed has left a post without a row, beside a
\* reminder created in full
OrphanPostBesideReminder ==
    /\ create.pc = "answered"
    /\ create.resp = Resp(500, "upserterr")
    /\ PostExists(create.postId)
    /\ ~HasRow(reminders, create.postId)
    /\ \E id \in DOMAIN reminders : id # create.postId

\* C12 as stated: a creation or stop command answered with a validation
\* error (text or channel_id missing, format, mentions or body missing, bad
\* date, no stop id, post or row not found) gets status 200.
ValidationAnswered200 ==
    /\ (create.pc = "answered"
           /\ create.resp.kind \in {"missing", "usage", "baddate"}) =>
          create.resp.status = 200
    /\ (stop.pc = "answered"
           /\ stop.resp.kind \in {"missing", "usage", "noid", "postnotfound",
                                   "rownotfound"}) =>
          stop.resp.status = 200

\* C13: a creation or stop request whose token is not the secret is answered
\* 403 at once, having created or edited no post, posted no reply and read
\* or written no row; and every step of these handlers that changes the
\* posts or the table, reads the table or sends a reply belongs to a request
\* that carried the right token.
TokenGate ==
    /\ []((create.pc # "idle" /\ ~create.tokenOk) =>
             /\ create.pc = "answered"
             /\ create.resp = Resp(403, "forbidden")
             /\ create.made = 0 /\ create.wrote = 0 /\ ~create.edited)
    /\ []((stop.pc # "idle" /\ ~stop.tokenOk) =>
             /\ stop.pc = "answered"
             /\ stop.resp = Resp(403, "forbidden")
             /\ stop.reads = 0 /\ stop.tries = 0 /\ stop.updated = 0
             /\ stop.reply = NoReply)
    /\ [][(create' # create /\ (posts' # posts \/ reminders' # reminders
                                   \/ create'.edited # create.edited)) =>
             create.tokenOk /\ create.resp.status # 403]_vars
    /\ [][(stop' # stop /\ stop'.pc # "idle"
               /\ (reminders' # reminders \/ stop'.reads # stop.reads
                      \/ stop'.tries # stop.tries \/ stop'.reply # stop.reply)) =>
             stop.tokenOk /\ stop.resp.status # 403]_vars

\* a stop naming an open reminder was refused for its token, and the
\* reminder is still open
RefusedStopLeftRowOpen ==
    /\ stop.pc = "answered"
    /\ ~stop.tokenOk
    /\ stop.resp.status = 403
    /\ \E id \in DOMAIN reminders :
          /\ stop.text = StopTextOf("id", id)
          /\ reminders[id].completed # "true"

\* C18: a stop whose update was tried and did not go through is answered
\* 500 with the update error at once: the update is tried once, no reply is
\* posted and the step leaves the table as it was.
StopUpdateErrorIs500 ==
    /\ []((stop.tries > 0 /\ stop.updated = 0) =>
             /\ stop.pc = "answered"
             /\ stop.resp = Resp(500, "updateerr")
             /\ stop.reply = NoReply)
    /\ [](stop.tries <= 1)
    /\ [](stop.resp.kind = "updateerr" => stop.tries = 1 /\ stop.updated = 0)
    /\ [][(stop'.resp.kind = "updateerr" /\ stop.resp.kind # "updateerr") =>
             stop.pc = "update" /\ reminders' = reminders]_vars
    /\ [][stop.resp.kind = "updateerr" =>
             (stop' = stop \/ stop' = IdleStop) /\ (stop' # stop => reminders' = reminders)]_vars

\* a stop of an open reminder has been answered with the update error, the
\* reminder still open
StopFailedRowStillOpen ==
    /\ stop.pc = "answered"
    /\ stop.resp = Resp(500, "updateerr")
    /\ HasRow(reminders, stop.rootId)
    /\ reminders[stop.rootId].completed # "true"

(***************************************************************************)
(* Properties of the stop text, checked on SpecStop.                       *)
(***************************************************************************)
\* the places of the stop text where /pl/ is followed by 26 alphanumerics
LinkPlaces(fields) ==
    {pl \in (DOMAIN fields) \X (1..4) :
        /\ pl[2] \in DOMAIN fields[pl[1]]
        /\ fields[pl[1]][pl[2]].k = "pl"
        /\ AlnumRun(SubSeq(fields[pl[1]], pl[2] + 1, Len(fields[pl[1]]))) >= IdLength}

\* the first of them in reading order
FirstLinkPlace(fields) ==
    CHOOSE pl \in LinkPlaces(fields) :
        \A q \in LinkPlaces(fields) :
            pl[1] < q[1] \/ (pl[1] = q[1] /\ pl[2] <= q[2])

\* the id a permalink of the text gives
PermalinkId(fields) ==
    LET pl == FirstLinkPlace(fields)
        next == fields[pl[1]][pl[2] + 1]
    IN  IF next.k = "id" THEN next.v ELSE GhostId

\* a field that is exactly one post id
IsBareId(field) == Len(field) = 1 /\ field[1].k = "id"

\* the stop id as stated: the permalink's id, else the first field when it
\* is exactly an id, else none
StatedStopId(fields) ==
    IF LinkPlaces(fields) # {} THEN PermalinkId(fields)
    ELSE IF fields # <<>> /\ IsBareId(fields[1]) THEN fields[1][1].v
    ELSE 0

\* the same, the first field taken without its angle brackets
AngleFreeStopId(fields) ==
    LET bare == IF fields = <<>> THEN <<>>
                ELSE SelectSeq(fields[1], LAMBDA a : a.k \notin {"lt", "gt"})
    IN  IF LinkPlaces(fields) # {} THEN PermalinkId(fields)
        ELSE IF IsBareId(bare) THEN bare[1].v
        ELSE 0

\* C20 as stated: the id the stop handler works with is the stated one, and
\* a request with the right token and a channel whose text gives none is
\* answered 200 with the usage text, no row read or written, nothing posted.
StopIdAsStated ==
    /\ stop.pc = "direct" => stop.id = StatedStopId(stop.text)
    /\ (stop.pc = "answered" /\ stop.tokenOk /\ stop.channel # "" /\ stop.reads = 0) =>
          /\ StatedStopId(stop.text) = 0
          /\ stop.resp = Resp(200, "usage")
          /\ stop.tries = 0 /\ stop.updated = 0 /\ stop.reply = NoReply

\* C20, amended: the same with the first field read without its angle
\* brackets.
StopIdAnglesDropped ==
    /\ stop.pc = "direct" => stop.id = AngleFreeStopId(stop.text) /\ stop.id # 0
    /\ (stop.pc = "answered" /\ stop.tokenOk /\ stop.channel # "" /\ stop.reads = 0) =>
          /\ AngleFreeStopId(stop.text) = 0
          /\ stop.resp = Resp(200, "usage")
          /\ stop.tries = 0 /\ stop.updated = 0 /\ stop.reply = NoReply

\* a stop text that is the id of a reminder in angle brackets was taken for
\* that reminder
StopByAngledId ==
    /\ stop.pc = "direct"
    /\ \E id \in DOMAIN reminders :
          stop.text = StopTextOf("angleid", id) /\ stop.id = id

(***************************************************************************)
(* Properties of the evaluation run, checked on SpecEval.                  *)
(***************************************************************************)
\* the target set of a reminder: the usernames of its structured content,
\* else the usernames of the mentor group
TargetSet(r) ==
    IF r.content.json THEN Range(r.content.target_usernames)
    ELSE {UserOfId(m).username : m \in Range(MentorGroup.members)}

\* the usernames with a `done` reaction, in the set reacts, on a post of the
\* thread of the reminder
DoneInThread(r, reacts) ==
    {u.username : u \in {x \in AllUsers :
        \E re \in reacts : /\ re.user = x.id
                           /\ re.emoji = "done"
                           /\ re.post \in ThreadOf(r.post_id)}}

\* the targets that have not reacted `done` (a target that is no user never has)
PendingSet(r, reacts) == TargetSet(r) \ DoneInThread(r, reacts)

\* the reminder the run is dealing with, and whether its calls went through
Current == cron.list[cron.idx]

RunWentThrough == cron.mentors # <<>> /\ cron.fetch = "ok"

Occurrences(seq, x) == Cardinality({i \in DOMAIN seq : seq[i] = x})

\* C3 as stated, for a run whose mentor lookup and reaction fetch succeeded:
\* when the run has dealt with a reminder whose pending set is not empty,
\* it has posted a notification for it exactly if diffDays is 7, 5, 3, 2, 1
\* or at most 0, and then exactly one.
NotifiesByPolicy ==
    (/\ cron.pc = "decided"
     /\ RunWentThrough
     /\ PendingSet(Current, reactions) # {}) =>
        /\ (cron.did = "reminded") <=>
              (cron.diffDays \in {7, 5, 3, 2, 1} \/ cron.diffDays <= 0)
        /\ cron.did = "reminded" => Occurrences(cron.notified, Current.post_id) = 1

\* C4 as stated, for a reminder of the mentor group and a run whose reaction
\* fetch succeeded: when every target had a `done` reaction on a post of the
\* thread as the run loaded its list, the run has set the reminder completed
\* (or tried to) and has posted no notification for it.
CompletesWhenThreadDone ==
    (/\ cron.pc = "decided"
     /\ cron.fetch = "ok"
     /\ ~Current.content.json
     /\ PendingSet(Current, cron.atLoad) = {}) =>
        /\ cron.did \in {"completed", "updateerr"}
        /\ Occurrences(cron.notified, Current.post_id) = 0

\* C10 as stated: for a reminder with structured content the users the run
\* finds pending are among its target usernames, so a notification mentions
\* none but them, and the run completes the reminder only when no target is
\* pending.
TracksTargetUsernames ==
    (cron.pc = "decided" /\ Current.content.json) =>
        /\ Range(Usernames(cron.missing)) \subseteq TargetSet(Current)
        /\ cron.did = "reminded" =>
              Range(cron.reply.message.mentions) \subseteq TargetSet(Current)
        /\ cron.did = "completed" => PendingSet(Current, reactions) = {}

\* C11 as stated: when the run has dealt with a reminder whose root post was
\* not found (deleted) as the run turned to it, the run has set the reminder
\* completed (or tried to) and has posted no notification for it.
CompletesWhenRootGone ==
    (cron.pc = "decided" /\ cron.gone) =>
        /\ cron.did \in {"completed", "updateerr"}
        /\ Occurrences(cron.notified, Current.post_id) = 0

\* C17 as stated: a run whose mentor lookup succeeded does not end while a
\* reminder of its list is still to come after the one it is at, whatever
\* fetch or update failed on the way; and a reminder whose update failed
\* keeps its row.
LaterRemindersStillEvaluated ==
    /\ (cron.pc = "answered" /\ cron.mentors # <<>>) => cron.idx >= Len(cron.list)
    /\ (cron.pc = "decided" /\ cron.did = "updateerr") =>
          reminders[Current.post_id] = Current

(***************************************************************************)
(* Properties of single creation requests, checked on SpecDates and        *)
(* SpecMentions.                                                           *)
(***************************************************************************)
\* C7 as stated, for a request with the right token, a text and a channel
\* whose lookups are not rejected: a first field that is a date of the
\* calendar written YYYY/MM/DD is stored as that same date, whatever the
\* server's time zone; any other first field is answered 200 and neither a
\* post nor a row is written.
DueDateAsWritten ==
    (/\ create.pc = "answered"
     /\ create.tokenOk
     /\ create.resp.kind \notin {"missing", "thrown"}) =>
        /\ (IsValidYmd(create.dateStr) /\ create.wrote = 1) =>
              reminders[create.postId].due_date =
                  [y |-> create.dateStr.y, m |-> create.dateStr.m,
                   d |-> create.dateStr.d]
        /\ ~IsValidYmd(create.dateStr) =>
              /\ create.resp.status = 200
              /\ create.made = 0
              /\ create.wrote = 0

\* C19 as stated: in the variant with mentions, a request with the right
\* token, a text and a channel whose date is followed by no mention, or by
\* mentions and nothing else, is answered 200 with the usage text (unless a
\* lookup is rejected) and makes neither a post nor a row; and the mentions
\* the handler expands are all the fields of the leading run of mentions.
MentionRunNeedsBody ==
    (/\ create.variant = "reminder"
     /\ create.pc \notin {"idle", "expand"}
     /\ create.resp.kind # "thrown"
     /\ create.tokenOk
     /\ ~create.text.empty
     /\ create.channel # "") =>
        LET k == LeadingMentions(create.text.words)
        IN  /\ (k = 0 \/ k = Len(create.text.words)) =>
                  /\ create.pc = "answered"
                  /\ create.resp = Resp(200, "usage")
                  /\ create.made = 0
                  /\ create.wrote = 0
            /\ create.rawAll # <<>> =>
                  create.rawAll = SubSeq(create.text.words, 1, k)

\* the usernames a name stands for: the user of that name, else the members
\* of the group of that name in the group's order, else the name itself
NamesFor(name) ==
    IF \E u \in AllUsers : u.username = name THEN <<name>>
    ELSE IF \E g \in AllGroups : g.name = name
        THEN LET g == CHOOSE x \in AllGroups : x.name = name
             IN  [i \in DOMAIN g.members |-> UserOfId(g.members[i]).username]
    ELSE <<name>>

RECURSIVE AppendNew(_, _)
AppendNew(acc, names) ==
    IF names = <<>> THEN acc
    ELSE AppendNew(IF Head(names) \in Range(acc) THEN acc ELSE Append(acc, Head(names)),
                   Tail(names))

\* the tokens resolved one after the other, each with its first '@' removed
RECURSIVE ResolveStrippedOnce(_, _)
ResolveStrippedOnce(tokens, acc) ==
    IF tokens = <<>> THEN acc
    ELSE ResolveStrippedOnce(Tail(tokens), AppendNew(acc, NamesFor(Tail(Head(tokens)))))

\* the same with up to two '@' removed, a token that is empty then adding nothing
RECURSIVE ResolveStrippedTwice(_, _)
ResolveStrippedTwice(tokens, acc) ==
    IF tokens = <<>> THEN acc
    ELSE LET once == Tail(Head(tokens))
             name == IF once # <<>> /\ Head(once) = "@" THEN Tail(once) ELSE once
         IN  ResolveStrippedTwice(Tail(tokens),
                 IF name = <<>> THEN acc ELSE AppendNew(acc, NamesFor(name)))

\* expandMentions has gone through all the mentions of the request
Expanded == create.rawAll # <<>> /\ create.raw = <<>>

CompletedOnlyWhenTargetsDone ==
    (cron.pc = "decided" /\ cron.did = "completed") =>
        /\ PendingSet(Current, reactions) = {}
        /\ cron.mentors # <<>>

(***************************************************************************)
(* Properties of the channel summary, checked on SpecSummary.              *)
(***************************************************************************)
\* the request was answered after the loop over the channels ended with no
\* transcript content
AnsweredWithoutContent ==
    summary.pc = "answered" /\ summary.decided /\ summary.transcript = {}

NoGeneratorCalled == summary.llm = 0 /\ summary.images = 0 /\ summary.voice = 0

\* C14: a request in debug mode posts nothing to the summary channel on any
\* path, and its 200 response carries the log lines and, when a summary was
\* generated, the generated content.
DebugPostsNothing ==
    (summary.pc = "answered" /\ summary.debug)
        => /\ summary.posted = <<>>
           /\ summary.resp.status = 200 => summary.resp.logs
           /\ summary.resp.kind = "generated" => summary.resp.content

RestrictedNeverInTranscript ==
    \A line \in summary.transcript :
        /\ ~IncludesGlyph(line.purpose)
        /\ ~IncludesGlyph(line.header)
        /\ ~(line.rootMessage # <<>> /\ Head(line.rootMessage) \in Glyphs)

\* C21: a failure while fetching the data of one channel (metadata, posts,
\* reactions, user names) never aborts the run: every request whose channel
\* list was fetched gets to the end of the loop over the channels.
ChannelFailureNeverAborts ==
    (summary.pc = "answered" /\ summary.resp.kind # "nochannels") => summary.decided

\* C22: whenever the text of the summary was produced and debug is off, the
\* text is posted exactly once, with or without an image, whatever became
\* of the image.
TextPostedOnce ==
    (summary.pc = "answered" /\ summary.type = "text" /\ ~summary.debug
        /\ summary.images = 1)
        => summary.posted \in {<<"text">>, <<"image">>}

(***************************************************************************)
(* Properties of the logger, checked on SpecLogger.                        *)
(***************************************************************************)
\* C23: the log lines returned to a debug request are exactly the lines that
\* request logged, whatever other request is in the process with it.
DebugLogsAreOwn ==
    \A r \in Requests :
        (logger.req[r].pc = "answered" /\ logger.req[r].debug)
            => logger.req[r].logs = [i \in 1..logger.req[r].lines |-> r]

(***************************************************************************)
(* Properties of the chunk synthesis, checked on SpecSynth.                *)
(***************************************************************************)
RECURSIVE Ascending(_)
Ascending(s) == Len(s) < 2 \/ (s[1] < s[2] /\ Ascending(Tail(s)))

\* C24: when synthesizeWithVoiceVox has returned, every chunk request had
\* settled, the merged audio holds exactly the chunks that were synthesized,
\* in chunk order, no request was sent twice, and the result is null when no
\* chunk was synthesized.
MergedInChunkOrder ==
    synth.pc = "returned"
        => /\ \A i \in 1..synth.n : synth.chunk[i].pc = "settled"
           /\ Range(synth.merged)
                 = {i \in 1..synth.n : synth.chunk[i].result = "buffer"}
           /\ Ascending(synth.merged)
           /\ \A i \in 1..synth.n :
                 synth.chunk[i].queries <= 1 /\ synth.chunk[i].syntheses <= 1
           /\ synth.merged = <<>> => synth.result = "null"

\* the last chunk settled first, a chunk failed, two were merged
MergedAfterReverseCompletion ==
    /\ synth.pc = "returned"
    /\ synth.n = MaxChunks
    /\ Len(synth.merged) = 2
    /\ synth.order[1] = MaxChunks
    /\ synth.chunk[MaxChunks].result = "buffer"
    /\ synth.result = "url"

(***************************************************************************)
(* Properties of diffDays, checked on SpecDays.                            *)
(***************************************************************************)
\* the number of the calendar day of the instant, in the server's zone
LocalDayNumber(ts, zone) == FloorDiv(ts + zone, HoursPerDay)

\* C25: the diffDays a run computes for a reminder is the number of calendar
\* days from the day of the run to the due date: 0 at every hour of the due
\* day, -k on the k-th day after it, k on the k-th day before it.
DiffDaysCountsCalendarDays ==
    cron.pc = "decide"
        => LET due == cron.list[cron.idx].due_date
           IN  cron.diffDays
                 = DayNumber(due.y, due.m, due.d) - LocalDayNumber(cron.now, tz)

\* the usernames with a `done` reaction on the root post of the reminder
DoneOnRoot(r) ==
    {u.username : u \in {x \in AllUsers :
        \E re \in reactions : re.user = x.id /\ re.emoji = "done" /\ re.post = r.post_id}}

\* C26: a notification of a run whose reaction fetch succeeded, and during
\* which no reaction was added, is a reply in the reminder's channel under
\* the reminder's post, its template is the one of the sign of diffDays, and
\* it mentions exactly the targets without a `done` reaction.
NotificationAsComposed ==
    (/\ cron.pc = "decided"
     /\ cron.did = "reminded"
     /\ cron.fetch = "ok"
     /\ reactions = cron.atLoad) =>
        /\ cron.reply.channel_id = Current.channel_id
        /\ cron.reply.root_id = Current.post_id
        /\ cron.reply.message.kind = IF cron.diffDays < 0 THEN "overdue"
                                      ELSE IF cron.diffDays = 0 THEN "today"
                                      ELSE "before"
        /\ cron.reply.message.days = IF cron.diffDays < 0 THEN -cron.diffDays
                                      ELSE cron.diffDays
        /\ Range(cron.reply.message.mentions) = TargetSet(Current) \ DoneOnRoot(Current)

(***************************************************************************)
(* Properties of the time range, checked on SpecRange.                     *)
(***************************************************************************)
\* the number of the JST calendar day of the instant
JstDay(ts) == FloorDiv(ts + jstOffset, HoursPerDay)

\* the instant at which JST day number n starts
JstMidnight(n) == HoursPerDay * n - jstOffset

\* the window of a request: the previous JST day, or today's JST midnight up
\* to now
WindowStart == JstMidnight(IF range.forToday THEN JstDay(range.now)
                           ELSE JstDay(range.now) - 1)
WindowEnd == IF range.forToday THEN range.now ELSE JstMidnight(JstDay(range.now))

InWindow(ts) == WindowStart <= ts /\ ts < WindowEnd

\* the channel may contribute: public, last activity inside the window, not
\* the summary channel, no marker in the display name
MayContribute ==
    /\ range.type = "O"
    /\ WindowStart <= range.last_post_at
    /\ range.last_post_at <= WindowEnd
    /\ ~range.isSummary
    /\ ~range.notification

\* C27: a channel contributes only if it may contribute, and what is taken
\* from it are exactly the posts of its page created inside the window,
\* oldest first.
SelectionAsStated ==
    range.pc = "selected" =>
        /\ range.posts # <<>> => MayContribute
        /\ MayContribute =>
              {p.id : p \in Range(range.posts)}
                 = {i \in DOMAIN range.page : InWindow(range.page[i])}
        /\ \A i \in DOMAIN range.posts : \A j \in DOMAIN range.posts :
              i < j => range.posts[i].create_at <= range.posts[j].create_at

(***************************************************************************)
(* Properties of a stop command and an evaluation run, checked on          *)
(* SpecRace.                                                               *)
(***************************************************************************)
\* the run posts a notification for reminder id in this step
Notifies(id) ==
    /\ Len(cron'.notified) = Len(cron.notified) + 1
    /\ cron'.notified[Len(cron'.notified)] = id

\* C29: once a stop command has completed a reminder and has been answered,
\* no evaluation run posts a notification for that reminder, even a run that
\* loaded its list before the stop's update.
NoNotificationAfterStop ==
    [][\A id \in DOMAIN reminders :
          (reminders[id].completed = "true" /\ stop.pc = "idle") => ~Notifies(id)]_vars

(***************************************************************************)
(* Properties of waitForAudioCompletion, checked on SpecStream.            *)
(***************************************************************************)
RECURSIVE FirstDecisive(_)
\* what the first line that is a decisive event asks for: "url", "null", or
\* "null" when there is none
FirstDecisive(lines) ==
    IF lines = <<>> THEN "null"
    ELSE IF OnLine(Head(lines)) # "none" THEN OnLine(Head(lines))
    ELSE FirstDecisive(Tail(lines))

\* the lines of the stream that a newline terminates
TerminatedLines(st) ==
    IF st.terminated \/ st.lines = <<>> THEN st.lines
    ELSE SubSeq(st.lines, 1, Len(st.lines) - 1)

\* C30: however the stream is cut into chunks, the result is that of the
\* first decisive event of the stream, the last event included when the
\* stream closes right after it.
ResultFromAllEvents ==
    stream.pc = "returned" => stream.result = FirstDecisive(stream.sent.lines)

\* what the reader does give, however the stream is cut into chunks: the
\* result of the first decisive event among the lines a newline terminates
ResultFromTerminatedLines ==
    stream.pc = "returned"
        => stream.result = FirstDecisive(TerminatedLines(stream.sent))

====
